---- MODULE Spec2Model ----
(***************************************************************************)
(* A model of the interactive data grids of src/App.tsx: TaskListView and  *)
(* IssueLogView (column order, column widths, filters, selection, bulk     *)
(* update, persisted layout) and of the timeline of GanttView (zoom,       *)
(* date range, bar geometry).  A string of the program is a sequence of    *)
(* one-character strings, so that toLowerCase and includes are computed,   *)
(* not assumed.  A number that need not be whole (pixelsPerDay, a pixel    *)
(* position) is an exact fraction [num, den] in lowest terms.              *)
(***************************************************************************)
EXTENDS Integers, Sequences, FiniteSets, TLC

VARIABLES
    currentView,     \* App.currentView: which grid is mounted ("list" or "issues")
    columnOrder,     \* useState<string[]>: the mounted grid's column order
    draggedColumn,   \* useState<string | null>
    columnWidths,    \* useState<Record<string, number>>
    resizing,        \* useState<{key,startX,startWidth} | null>: <<>> or <<record>>
    listeners,       \* the window mousemove/mouseup listeners: the value of
                     \* resizing each registered pair of closures captured
    localStorage,    \* window.localStorage: storage key -> JSON text (tokens)
    tasks,           \* the tasks prop of TaskListView (activeProject.tasks)
    activeFilters,   \* useState<Record<string, string>>
    filterOpen,      \* useState<string | null>
    selectedIds,     \* useState<Set<string>>
    bulkRequests,    \* the onBulkUpdate calls made by the handler that ran last
    fltRecords,      \* filter function under test: the records passed in
    fltMap,          \* filter function under test: the filter map
    fltView,         \* filter function under test: <<>> or <<the filtered list>>
    pixelsPerDay,    \* GanttView useState(40): the zoom, a fraction
    ganttTasks,      \* the tasks prop of GanttView
    timezoneWest,    \* the browser's time zone is west of UTC (local = UTC - h)
    projects,        \* App useState<Project[]>
    activeProjectId, \* App useState<string>
    currentUserId,   \* App useState<string>: the simulated user
    editingTask,     \* App useState<Task | null>
    taskFormData,    \* TaskForm useState<Task>: <<>> while the task modal is closed
    editingIssue,    \* App useState<Issue | null>
    issueFormData,   \* IssueForm useState<Issue>: <<>> while the issue modal is closed
    lastOp           \* the handler that ran last, with its arguments and locals

vars == <<currentView, columnOrder, draggedColumn, columnWidths, resizing, listeners,
          localStorage, tasks, activeFilters, filterOpen, selectedIds, bulkRequests,
          fltRecords, fltMap, fltView, pixelsPerDay, ganttTasks, timezoneWest,
          projects, activeProjectId, currentUserId, editingTask, taskFormData,
          editingIssue, issueFormData, lastOp>>

layoutVars == <<currentView, columnOrder, draggedColumn, columnWidths, resizing,
                listeners, localStorage>>
listVars == <<tasks, activeFilters, filterOpen, selectedIds, bulkRequests>>
fltVars == <<fltRecords, fltMap, fltView>>
ganttVars == <<pixelsPerDay, ganttTasks, timezoneWest>>
appVars == <<projects, activeProjectId, currentUserId, editingTask, taskFormData,
             editingIssue, issueFormData>>

\* ---------------------------------------------------------------- bounds
NumCols == 4        \* the grids show the first NumCols of their columns
MaxTasks == 3       \* tasks in the project shown by the task list
MaxRecords == 2     \* records handed to the filter function
MaxFilterKeys == 2  \* entries of a filter map handed to the filter function
MaxWidth == 400     \* widest column a pointer-move may produce
MaxPointerStep == 1 \* the pointer is at clientX 0, 200, ... 200 * MaxPointerStep
MaxZoomSteps == 2   \* zoom clicks away from a whole pixelsPerDay, either way
MaxGanttTasks == 2  \* tasks of the project shown by the Gantt view
MaxProjects == 2    \* projects of the workspace
MaxNewTasks == 1    \* tasks created through the task form
MaxIssues == 2      \* issues of a project that issues are saved to

\* ---------------------------------------------------------------- constants
MinColumnWidth == 80

InitialPixelsPerDay == 40

MinPixelsPerDay == 2

MaxPixelsPerDay == 100

DailyThreshold == 18

DailyPreset == 40

MonthlyPreset == 5

RowHeight == 48

RowCentre == 24

DailyStartBuffer == 5

MonthlyStartBuffer == 15

DailyEndBuffer == 10

MonthlyEndBuffer == 45

DailyColumnCap == 1000
MonthlyColumnCap == 200
MilestoneSize == 28

MilestoneHalf == 14

\* ---------------------------------------------------------------- values
Null == "<null>"

\* The state of GanttView while it is not the subject: zoom as constructed,
\* no tasks.
GanttUnmounted ==
    /\ pixelsPerDay = [num |-> InitialPixelsPerDay, den |-> 1]
    /\ ganttTasks = <<>>
    /\ timezoneWest = FALSE

Max(a, b) == IF a >= b THEN a ELSE b

Min(a, b) == IF a <= b THEN a ELSE b

Range(s) == {s[i] : i \in 1..Len(s)}

UpperLetters == <<"A","B","C","D","E","F","G","H","I","J","K","L","M",
                  "N","O","P","Q","R","S","T","U","V","W","X","Y","Z">>

LowerLetters == <<"a","b","c","d","e","f","g","h","i","j","k","l","m",
                  "n","o","p","q","r","s","t","u","v","w","x","y","z">>

\* String.prototype.toLowerCase on one character (ASCII letters).
LowerChar(c) ==
    IF \E i \in 1..Len(UpperLetters) : UpperLetters[i] = c
    THEN LowerLetters[CHOOSE i \in 1..Len(UpperLetters) : UpperLetters[i] = c]
    ELSE c

ToLowerCase(s) == [i \in 1..Len(s) |-> LowerChar(s[i])]

\* String.prototype.includes: sub occurs in s at some offset.
Includes(s, sub) ==
    \E i \in 0..(Len(s) - Len(sub)) : SubSeq(s, i + 1, i + Len(sub)) = sub

\* JavaScript truthiness of a string value.
Truthy(v) == v # <<>>

\* (record as any)[key] || '' : a missing field or an empty one gives ''.
FieldOrEmpty(rec, key) ==
    IF key \in DOMAIN rec /\ Truthy(rec[key]) THEN rec[key] ELSE <<>>

\* record.status === value : a missing field is undefined, equal to no string.
FieldEquals(rec, key, value) == key \in DOMAIN rec /\ rec[key] = value

\* ---------------------------------------------------------------- app state
\* workspace.members: the id and the role of each member.
WorkspaceMembers ==
    <<[id |-> "u1", role |-> "Owner"], [id |-> "u2", role |-> "Admin"],
      [id |-> "u3", role |-> "Member"]>>

\* The day the seed data was built on.
SeedToday == [y |-> 2024, m |-> 3, d |-> 1]

\* INITIAL_PROJECTS, with the first task and the issue of 'p1'.  A task is its
\* id, type, status and dates; an issue its id, status and closedDate
\* (Undefined when the field is absent).
Undefined == "<undefined>"

InitialProjects ==
    <<[id |-> "p1", members |-> {"u1", "u2", "u3"},
       tasks |-> <<[id |-> "t1", type |-> "Task", status |-> "Done",
                    startDate |-> [y |-> 2024, m |-> 2, d |-> 25],
                    dueDate |-> [y |-> 2024, m |-> 2, d |-> 28]]>>,
       issues |-> <<[id |-> "i1", status |-> "Open", closedDate |-> Undefined]>>],
      [id |-> "p2", members |-> {"u1", "u2"}, tasks |-> <<>>, issues |-> <<>>]>>

\* App after construction with nothing in storage: the seed projects, the
\* first of them active, the first member as the user, no modal open.
AppIdle ==
    /\ projects = InitialProjects
    /\ activeProjectId = "p1"
    /\ currentUserId = "u1"
    /\ editingTask = <<>>
    /\ taskFormData = <<>>
    /\ editingIssue = <<>>
    /\ issueFormData = <<>>

\* ---------------------------------------------------------------- filter
\* Mutant: status and priority matched like the text fields.
MutEntryPassesAllSubstring(task, key, value) ==
    IF ~Truthy(value) THEN TRUE
    ELSE Includes(ToLowerCase(FieldOrEmpty(task, key)), ToLowerCase(value))

\* Mutant: an empty filter value is compared like any other.
MutEntryPassesNoEmptyCheck(task, key, value) ==
    IF key = "status" THEN FieldEquals(task, "status", value)
    ELSE IF key = "priority" THEN FieldEquals(task, "priority", value)
    ELSE Includes(ToLowerCase(FieldOrEmpty(task, key)), ToLowerCase(value))

\* The callback of Object.entries(activeFilters).every(...) in filteredTasks.
TaskEntryPasses(task, key, value) ==
    IF ~Truthy(value) THEN TRUE
    ELSE IF key = "status" THEN FieldEquals(task, "status", value)
    ELSE IF key = "priority" THEN FieldEquals(task, "priority", value)
    ELSE Includes(ToLowerCase(FieldOrEmpty(task, key)), ToLowerCase(value))

FilteredTasks(ts, filters) ==
    SelectSeq(ts, LAMBDA task :
        \A key \in DOMAIN filters : TaskEntryPasses(task, key, filters[key]))

\* The same callback in IssueLogView.filteredIssues.
IssueEntryPasses(issue, key, value) ==
    IF ~Truthy(value) THEN TRUE
    ELSE IF key = "status" THEN FieldEquals(issue, "status", value)
    ELSE IF key = "priority" THEN FieldEquals(issue, "priority", value)
    ELSE Includes(ToLowerCase(FieldOrEmpty(issue, key)), ToLowerCase(value))

FilteredIssues(issues, filters) ==
    SelectSeq(issues, LAMBDA issue :
        \A key \in DOMAIN filters : IssueEntryPasses(issue, key, filters[key]))

\* {...activeFilters, [key]: value}
WithEntry(filters, key, value) ==
    [k \in DOMAIN filters \cup {key} |-> IF k = key THEN value ELSE filters[k]]

\* delete next[key]
WithoutEntry(filters, key) == [k \in DOMAIN filters \ {key} |-> filters[k]]

EmptyMap == [k \in {} |-> <<>>]

\* ------------------------------------------------- inputs of the filter
S_Done == <<"D","o","n","e">>

S_Doing == <<"D","o","i","n","g">>

S_do == <<"d","o">>

S_High == <<"H","i","g","h">>

RecordIdPool == <<"r1", "r2", "r3", "r4">>

FilterKeys == {"status", "priority", "title", "closedDate"}

FltValues == {<<>>, S_do, S_Done}

\* A record with id, status, priority and title, and closedDate or not.
FltRecordsWithId(id) ==
    LET base == [id : {id}, status : {S_Done, S_Doing}, priority : {S_High},
                 title : {S_Done, S_do}]
    IN  base \cup {r @@ [closedDate |-> S_Done] : r \in base}

FltRecordLists ==
    UNION {{s \in [1..n -> UNION {FltRecordsWithId(RecordIdPool[i]) : i \in 1..n}] :
               \A i \in 1..n : s[i].id = RecordIdPool[i]} : n \in 0..MaxRecords}

FltMaps ==
    UNION {[K -> FltValues] : K \in {K \in SUBSET FilterKeys :
                                         Cardinality(K) <= MaxFilterKeys}}

NotRun == <<>>

InitFilter ==
    /\ fltRecords \in FltRecordLists
    /\ fltMap \in FltMaps
    /\ fltView = NotRun
    /\ currentView = "list"
    /\ columnOrder = <<>>
    /\ draggedColumn = Null
    /\ columnWidths = EmptyMap
    /\ resizing = <<>>
    /\ listeners = <<>>
    /\ localStorage = EmptyMap
    /\ GanttUnmounted
    /\ AppIdle
    /\ tasks = <<>>
    /\ activeFilters = EmptyMap
    /\ filterOpen = Null
    /\ selectedIds = {}
    /\ bulkRequests = <<>>
    /\ lastOp = [op |-> "init"]

ApplyFilteredTasks ==
    /\ fltView' = <<FilteredTasks(fltRecords, fltMap)>>
    /\ UNCHANGED <<fltRecords, fltMap, layoutVars, listVars, ganttVars, lastOp, appVars>>

ApplyFilteredIssues ==
    /\ fltView' = <<FilteredIssues(fltRecords, fltMap)>>
    /\ UNCHANGED <<fltRecords, fltMap, layoutVars, listVars, ganttVars, lastOp, appVars>>

NextFilter == ApplyFilteredTasks \/ ApplyFilteredIssues

SpecFilter == InitFilter /\ [][NextFilter]_vars

\* ---------------------------------------------------------------- layout
TaskColumns == <<"title", "description", "status", "priority", "assignee",
                 "startDate", "dueDate", "closedDate">>

IssueColumns == <<"title", "description", "status", "priority", "dateOpened",
                  "dueDate", "closedDate", "reportedBy", "assignedTo">>

TaskDefaultWidths ==
    [title |-> 250, description |-> 350, status |-> 120, priority |-> 120,
     assignee |-> 160, startDate |-> 120, dueDate |-> 120, closedDate |-> 120]

IssueDefaultWidths ==
    [title |-> 250, description |-> 300, status |-> 120, priority |-> 120,
     dateOpened |-> 120, dueDate |-> 120, closedDate |-> 120, reportedBy |-> 150,
     assignedTo |-> 150]

GridViews == {"list", "issues"}

Columns(view) == IF view = "list" THEN TaskColumns ELSE IssueColumns

\* The default order of the mounted grid, cut to its last NumCols columns (the
\* cut keeps closedDate, which the task grid's order initializer looks for).
DefaultOrder(view) ==
    SubSeq(Columns(view), Len(Columns(view)) - NumCols + 1, Len(Columns(view)))

DefaultWidths(view) ==
    [k \in Range(DefaultOrder(view)) |->
        IF view = "list" THEN TaskDefaultWidths[k] ELSE IssueDefaultWidths[k]]

\* ------------------------------------------------- persisted layout (JSON)
\* A JSON text is its sequence of tokens.
Punct(c) == <<"punct", c>>

Str(s) == <<"string", s>>

Num(n) == <<"number", n>>

WidthsKey(view) == IF view = "list" THEN "taskflow_ui_v1" ELSE "taskflow_issue_ui_v1"

\* Mutant: both grids store their order under one key.
MutOrderKeyShared(view) == "taskflow_ui_order_v1"

OrderKey(view) ==
    IF view = "list" THEN "taskflow_ui_order_v1" ELSE "taskflow_issue_order_v1"

\* JSON.stringify of a string[].
StringifyOrder(order) ==
    LET n == Len(order)
    IN  IF n = 0 THEN <<Punct("["), Punct("]")>>
        ELSE [i \in 1..(2 * n + 1) |->
                 IF i = 1 THEN Punct("[")
                 ELSE IF i = 2 * n + 1 THEN Punct("]")
                 ELSE IF i % 2 = 0 THEN Str(order[i \div 2]) ELSE Punct(",")]

\* JSON.parse of the text of a string[].
ParseOrder(text) ==
    [i \in 1..((Len(text) - 1) \div 2) |-> text[2 * i][2]]

\* The own keys of a widths object in their insertion order: the order of the
\* default literal, which the spread in handleMouseMove and JSON both keep.
WidthKeys(widths, cols) == SelectSeq(cols, LAMBDA k : k \in DOMAIN widths)

\* JSON.stringify of a Record<string, number> of a grid with columns cols.
StringifyWidths(widths, cols) ==
    LET keys == WidthKeys(widths, cols)
        n == Len(keys)
    IN  IF n = 0 THEN <<Punct("{"), Punct("}")>>
        ELSE [i \in 1..(4 * n + 1) |->
                 IF i = 1 THEN Punct("{")
                 ELSE IF i = 4 * n + 1 THEN Punct("}")
                 ELSE IF i % 4 = 2 THEN Str(keys[(i + 2) \div 4])
                 ELSE IF i % 4 = 3 THEN Punct(":")
                 ELSE IF i % 4 = 0 THEN Num(widths[keys[i \div 4]])
                 ELSE Punct(",")]

\* JSON.parse of the text of a Record<string, number>.
ParseWidths(text) ==
    LET n == (Len(text) - 1) \div 4
    IN  [k \in {text[4 * j - 2][2] : j \in 1..n} |->
            text[4 * (CHOOSE j \in 1..n : text[4 * j - 2][2] = k)][2]]

\* localStorage.setItem.
SetItem(storage, key, text) ==
    [k \in DOMAIN storage \cup {key} |-> IF k = key THEN text ELSE storage[k]]

\* The initializer of the columnWidths state.
WidthsInitializer(view, storage) ==
    IF WidthsKey(view) \in DOMAIN storage
    THEN ParseWidths(storage[WidthsKey(view)])
    ELSE DefaultWidths(view)

\* Mutant: the task grid appends closedDate to every stored order.
MutOrderInitializerAlwaysAppends(view, storage) ==
    IF OrderKey(view) \in DOMAIN storage
    THEN LET parsed == ParseOrder(storage[OrderKey(view)])
         IN  IF view = "list" THEN Append(parsed, "closedDate") ELSE parsed
    ELSE DefaultOrder(view)

\* The initializer of the columnOrder state; the task grid appends closedDate
\* to a stored order that lacks it.
OrderInitializer(view, storage) ==
    IF OrderKey(view) \in DOMAIN storage
    THEN LET parsed == ParseOrder(storage[OrderKey(view)])
         IN  IF view = "list" /\ "closedDate" \notin Range(parsed)
             THEN Append(parsed, "closedDate")
             ELSE parsed
    ELSE DefaultOrder(view)

\* The effect that saves columnWidths.
SaveWidths(storage, view, widths) ==
    SetItem(storage, WidthsKey(view), StringifyWidths(widths, Columns(view)))

\* The effect that saves columnOrder.
SaveOrder(storage, view, order) ==
    SetItem(storage, OrderKey(view), StringifyOrder(order))

\* The storage after a grid has mounted: both effects run on mount.
StorageAfterMount(view, storage) ==
    SaveOrder(SaveWidths(storage, view, WidthsInitializer(view, storage)),
              view, OrderInitializer(view, storage))

\* Array.prototype.indexOf: 0-based, -1 when absent.
IndexOf(arr, x) ==
    IF \E i \in 1..Len(arr) : arr[i] = x
    THEN (CHOOSE i \in 1..Len(arr) :
              arr[i] = x /\ \A j \in 1..(i - 1) : arr[j] # x) - 1
    ELSE -1

\* Array.prototype.splice(start, deleteCount, ...items): the array afterwards.
\* A negative start counts from the end; start and deleteCount are clamped.
Splice(arr, start, deleteCount, items) ==
    LET len == Len(arr)
        from == IF start < 0 THEN Max(len + start, 0) ELSE Min(start, len)
        del == Min(Max(deleteCount, 0), len - from)
    IN  SubSeq(arr, 1, from) \o items \o SubSeq(arr, from + del + 1, len)

\* Mutant: the dragged column is put before the target's place after removal.
MutReorderBeforeTarget(order, dragged, target) ==
    LET removed == Splice(order, IndexOf(order, dragged), 1, <<>>)
    IN  Splice(removed, IndexOf(removed, target), 0, <<dragged>>)

\* Mutant: the dragged column and the target change places.
MutReorderSwap(order, dragged, target) ==
    [i \in 1..Len(order) |->
        IF order[i] = dragged THEN target
        ELSE IF order[i] = target THEN dragged ELSE order[i]]

\* The new order computed by handleColumnDrop (both indices are taken first).
ReorderColumns(order, dragged, target) ==
    LET draggedIdx == IndexOf(order, dragged)
        targetIdx == IndexOf(order, target)
        removed == Splice(order, draggedIdx, 1, <<>>)
    IN  Splice(removed, targetIdx, 0, <<dragged>>)

InitLayout ==
    /\ currentView \in GridViews
    /\ columnOrder = DefaultOrder(currentView)
    /\ draggedColumn = Null
    /\ columnWidths = DefaultWidths(currentView)
    /\ resizing = <<>>
    /\ listeners = <<>>
    /\ localStorage = StorageAfterMount(currentView, EmptyMap)
    /\ GanttUnmounted
    /\ AppIdle
    /\ tasks = <<>>
    /\ activeFilters = EmptyMap
    /\ filterOpen = Null
    /\ selectedIds = {}
    /\ bulkRequests = <<>>
    /\ fltRecords = <<>>
    /\ fltMap = EmptyMap
    /\ fltView = NotRun
    /\ lastOp = [op |-> "init"]

\* onDragStart of a column header.
HandleColumnDragStart(key) ==
    /\ key \in Range(columnOrder)
    /\ draggedColumn' = key
    /\ lastOp' = [op |-> "dragStart", key |-> key]
    /\ UNCHANGED <<currentView, columnOrder, columnWidths, resizing, listeners,
                   localStorage, listVars, fltVars, ganttVars, appVars>>

\* onDrop on a column header.
HandleColumnDrop(targetKey) ==
    /\ targetKey \in Range(columnOrder)
    /\ IF draggedColumn = Null \/ draggedColumn = targetKey
       THEN /\ UNCHANGED <<columnOrder, draggedColumn, localStorage, appVars>>
            /\ lastOp' = [op |-> "drop", moved |-> FALSE, dragged |-> draggedColumn,
                          target |-> targetKey]
       ELSE /\ columnOrder' = ReorderColumns(columnOrder, draggedColumn, targetKey)
            /\ draggedColumn' = Null
            /\ localStorage' = SaveOrder(localStorage, currentView, columnOrder')
            /\ lastOp' = [op |-> "drop", moved |-> TRUE, dragged |-> draggedColumn,
                          target |-> targetKey,
                          draggedIdx |-> IndexOf(columnOrder, draggedColumn),
                          targetIdx |-> IndexOf(columnOrder, targetKey)]
    /\ UNCHANGED <<currentView, columnWidths, resizing, listeners, listVars, fltVars,
                   ganttVars, appVars>>

\* A column drag ends with no drop on a header (released elsewhere, Escape):
\* the headers have no onDragEnd, so no handler runs.
DragEndWithoutDrop ==
    /\ lastOp.op = "dragStart"
    /\ lastOp' = [op |-> "dragEnd", key |-> lastOp.key]
    /\ UNCHANGED <<layoutVars, listVars, fltVars, ganttVars, appVars>>

NextOrder ==
    \/ \E key \in Range(columnOrder) : HandleColumnDragStart(key)
    \/ \E key \in Range(columnOrder) : HandleColumnDrop(key)
    \/ DragEndWithoutDrop

SpecOrder == InitLayout /\ [][NextOrder]_vars

\* ------------------------------------- the reorder computation on any keys
\* A key of the grid that the current order may lack.
StaleKey(view) == Columns(view)[Len(Columns(view)) - NumCols]

ReorderKeys(view) == Range(DefaultOrder(view)) \cup {StaleKey(view)}

\* The body of handleColumnDrop run with draggedColumn = draggedKey on a
\* target, whether or not the two keys are in the order.
ApplyHandleColumnDrop(draggedKey, targetKey) ==
    /\ columnOrder' = IF draggedKey = targetKey THEN columnOrder
                      ELSE ReorderColumns(columnOrder, draggedKey, targetKey)
    /\ localStorage' = IF draggedKey = targetKey THEN localStorage
                       ELSE SaveOrder(localStorage, currentView, columnOrder')
    /\ lastOp' = [op |-> "reorder", dragged |-> draggedKey, target |-> targetKey]
    /\ UNCHANGED <<currentView, draggedColumn, columnWidths, resizing, listeners,
                   listVars, fltVars, ganttVars, appVars>>

NextReorder ==
    \E d \in ReorderKeys(currentView), t \in ReorderKeys(currentView) :
        ApplyHandleColumnDrop(d, t)

SpecReorder == InitLayout /\ [][NextReorder]_vars

\* ---------------------------------------------------------------- resize
PointerXs == {200 * i : i \in 0..MaxPointerStep}

\* Mutant: the width grows from the column's current width on every move.
MutNewWidthAccumulates(widths, rs, clientX) ==
    Max(MinColumnWidth, widths[rs.key] + (clientX - rs.startX))

\* newWidth of handleMouseMove.
NewWidth(widths, rs, clientX) ==
    LET diff == clientX - rs.startX
    IN  Max(MinColumnWidth, rs.startWidth + diff)

\* Mutant: the move sets every column to the new width.
MutWithWidthAll(widths, key, newWidth) ==
    [k \in DOMAIN widths \cup {key} |-> newWidth]

\* ({ ...prev, [key]: newWidth }).
WithWidth(widths, key, newWidth) ==
    [k \in DOMAIN widths \cup {key} |-> IF k = key THEN newWidth ELSE widths[k]]

\* The widths after every registered handleMouseMove closure has run on one
\* mousemove event; rs is the list of the resizing values they captured.
RECURSIVE WidthsAfterMove(_, _, _)
WidthsAfterMove(widths, rs, clientX) ==
    IF rs = <<>> THEN widths
    ELSE WidthsAfterMove(WithWidth(widths, Head(rs).key,
                                   NewWidth(widths, Head(rs), clientX)),
                         Tail(rs), clientX)

\* Mutant: the effect has no cleanup, listeners stay registered.
MutListenersNeverRemoved(registered, rs) ==
    registered \o (IF rs # <<>> THEN <<rs[1]>> ELSE <<>>)

\* The effect on [resizing]: its cleanup removes the pair registered before,
\* then a pair capturing the new value is added if that value is not null.
RegisteredListeners(registered, rs) ==
    LET cleaned == SubSeq(registered, 1, 0)
    IN  cleaned \o (IF rs # <<>> THEN <<rs[1]>> ELSE <<>>)

\* onMouseDown on a column's resize handle.
StartResize(key, clientX) ==
    /\ key \in Range(columnOrder)
    /\ resizing' = <<[key |-> key, startX |-> clientX,
                      startWidth |-> columnWidths[key]]>>
    /\ listeners' = RegisteredListeners(listeners, resizing')
    /\ lastOp' = [op |-> "startResize", key |-> key, clientX |-> clientX]
    /\ UNCHANGED <<currentView, columnOrder, draggedColumn, columnWidths, localStorage,
                   listVars, fltVars, ganttVars, appVars>>

\* A mousemove on the window while handleMouseMove is registered.
HandleMouseMove(clientX) ==
    /\ listeners # <<>>
    /\ \A k \in DOMAIN columnWidths :
           WidthsAfterMove(columnWidths, listeners, clientX)[k] <= MaxWidth
    /\ columnWidths' = WidthsAfterMove(columnWidths, listeners, clientX)
    /\ localStorage' = SaveWidths(localStorage, currentView, columnWidths')
    /\ lastOp' = [op |-> "mouseMove", clientX |-> clientX]
    /\ UNCHANGED <<currentView, columnOrder, draggedColumn, resizing, listeners,
                   listVars, fltVars, ganttVars, appVars>>

\* A mousemove on the window while no listener is registered.
MouseMoveUnheard(clientX) ==
    /\ listeners = <<>>
    /\ lastOp' = [op |-> "mouseMoveUnheard", clientX |-> clientX]
    /\ UNCHANGED <<layoutVars, listVars, fltVars, ganttVars, appVars>>

\* A mouseup on the window while handleMouseUp is registered.
HandleMouseUp ==
    /\ listeners # <<>>
    /\ resizing' = <<>>
    /\ listeners' = RegisteredListeners(listeners, resizing')
    /\ lastOp' = [op |-> "mouseUp"]
    /\ UNCHANGED <<currentView, columnOrder, draggedColumn, columnWidths, localStorage,
                   listVars, fltVars, ganttVars, appVars>>

\* A mouseup on the window while no listener is registered.
MouseUpUnheard ==
    /\ listeners = <<>>
    /\ lastOp' = [op |-> "mouseUpUnheard"]
    /\ UNCHANGED <<layoutVars, listVars, fltVars, ganttVars, appVars>>

NextResize ==
    \/ \E key \in Range(columnOrder), x \in PointerXs : StartResize(key, x)
    \/ \E x \in PointerXs : HandleMouseMove(x)
    \/ \E x \in PointerXs : MouseMoveUnheard(x)
    \/ HandleMouseUp
    \/ MouseUpUnheard

SpecResize == InitLayout /\ [][NextResize]_vars

\* ------------------------------------------------- layout across remounts
\* The columns whose headers are dragged and dropped on below, and the one
\* that is resized.
EditedColumns(view) == Range(SubSeq(DefaultOrder(view), 1, 2))

ResizedColumn(view) == DefaultOrder(view)[1]

\* A grid mounts: its state is initialised, the layout from storage, and both
\* save effects run.  The state of the grid shown before is gone.
Mount(view) ==
    /\ currentView' = view
    /\ columnWidths' = WidthsInitializer(view, localStorage)
    /\ columnOrder' = OrderInitializer(view, localStorage)
    /\ draggedColumn' = Null
    /\ resizing' = <<>>
    /\ listeners' = RegisteredListeners(listeners, resizing')
    /\ localStorage' = StorageAfterMount(view, localStorage)
    /\ activeFilters' = EmptyMap
    /\ filterOpen' = Null
    /\ selectedIds' = {}
    /\ UNCHANGED <<tasks, bulkRequests, fltVars, ganttVars, appVars>>

\* setCurrentView from the navigation: the other grid replaces the shown one.
SwitchView(view) ==
    /\ view # currentView
    /\ Mount(view)
    /\ lastOp' = [op |-> "switchView", from |-> currentView]

\* The page is loaded again: the current view comes back from storage and its
\* grid mounts anew.
Reload ==
    /\ Mount(currentView)
    /\ lastOp' = [op |-> "reload"]

NextStorage ==
    \/ \E key \in EditedColumns(currentView) : HandleColumnDragStart(key)
    \/ \E key \in EditedColumns(currentView) : HandleColumnDrop(key)
    \/ \E x \in PointerXs : StartResize(ResizedColumn(currentView), x)
    \/ \E x \in PointerXs : HandleMouseMove(x)
    \/ HandleMouseUp
    \/ \E view \in GridViews : SwitchView(view)
    \/ Reload

SpecStorage == InitLayout /\ [][NextStorage]_vars

\* ------------------------------------ a layout stored before a schema change
\* The column key that a layout stored by an earlier version may lack (the
\* one the task grid's order initializer looks for).
LegacyKey == "closedDate"

WithoutKeys(widths, keys) == [k \in DOMAIN widths \ keys |-> widths[k]]

\* The storage an earlier version left for a grid: the default layout, its
\* widths without widthsLacked and its order without orderLacked.
LegacyStorage(view, widthsLacked, orderLacked) ==
    SaveOrder(SaveWidths(EmptyMap, view, WithoutKeys(DefaultWidths(view), widthsLacked)),
              view, SelectSeq(DefaultOrder(view), LAMBDA k : k \notin orderLacked))

\* The grid has mounted on such a storage.
InitLegacy ==
    \E view \in GridViews, widthsLacked \in SUBSET {LegacyKey},
       orderLacked \in SUBSET {LegacyKey} :
        LET stored == LegacyStorage(view, widthsLacked, orderLacked)
        IN  /\ currentView = view
            /\ columnWidths = WidthsInitializer(view, stored)
            /\ columnOrder = OrderInitializer(view, stored)
            /\ localStorage = StorageAfterMount(view, stored)
            /\ draggedColumn = Null
            /\ resizing = <<>>
            /\ listeners = <<>>
            /\ GanttUnmounted
    /\ AppIdle
            /\ tasks = <<>>
            /\ activeFilters = EmptyMap
            /\ filterOpen = Null
            /\ selectedIds = {}
            /\ bulkRequests = <<>>
            /\ fltRecords = <<>>
            /\ fltMap = EmptyMap
            /\ fltView = NotRun
            /\ lastOp = [op |-> "mountLegacy", widthsLacked |-> widthsLacked,
                         orderLacked |-> orderLacked]

SpecLegacy == InitLegacy /\ [][NextStorage]_vars

\* ---------------------------------------------------------------- task list
S_ToDo == <<"T","o"," ","D","o">>

S_Medium == <<"M","e","d","i","u","m">>

\* The statuses and priorities the model's tasks take (of TASK_STATUSES and
\* of the keys of PRIORITY_COLORS).
TaskStatuses == {S_ToDo, S_Done}

Priorities == {S_Medium, S_High}

\* The columns whose filter popover the model opens.
ListFilterKeys == {"status"}

\* The options of the filter select of a column.
FilterOptions(key) ==
    {<<>>} \cup (IF key = "status" THEN TaskStatuses ELSE Priorities)

\* generateId(): the ids handed out, in order.
TaskIdPool == <<"t1", "t2", "t3", "t4", "t5">>

\* filteredTasks.map(t => t.id)
VisibleIds == {t.id : t \in Range(FilteredTasks(tasks, activeFilters))}

IsAllSelected ==
    Len(FilteredTasks(tasks, activeFilters)) > 0
        /\ Cardinality(selectedIds) = Len(FilteredTasks(tasks, activeFilters))

IsIndeterminate ==
    Cardinality(selectedIds) > 0
        /\ Cardinality(selectedIds) < Len(FilteredTasks(tasks, activeFilters))

\* Mutant: select-all never clears.
MutToggledAllAlwaysSelects(selected, filtered) == {t.id : t \in Range(filtered)}

\* The selection set by toggleAllSelection.
ToggledAll(selected, filtered) ==
    IF Cardinality(selected) = Len(filtered) /\ Len(filtered) > 0
    THEN {}
    ELSE {t.id : t \in Range(filtered)}

\* Mutant: only the selected ids still in the view are sent.
MutBulkIdsVisibleOnly(selected, visible) == selected \cap visible

\* Array.from(selectedIds), the ids handed to onBulkUpdate.
BulkIds(selected, visible) == selected

\* handleBulkUpdateTasks on the tasks of the project shown.
BulkUpdated(ts, taskIds, updates) ==
    [i \in 1..Len(ts) |->
        IF ts[i].id \in taskIds
        THEN [k \in DOMAIN ts[i] |-> IF k \in DOMAIN updates THEN updates[k] ELSE ts[i][k]]
        ELSE ts[i]]

InitList ==
    /\ currentView = "list"
    /\ columnOrder = DefaultOrder("list")
    /\ draggedColumn = Null
    /\ columnWidths = DefaultWidths("list")
    /\ resizing = <<>>
    /\ listeners = <<>>
    /\ localStorage = StorageAfterMount("list", EmptyMap)
    /\ GanttUnmounted
    /\ AppIdle
    /\ tasks = <<>>
    /\ activeFilters = EmptyMap
    /\ filterOpen = Null
    /\ selectedIds = {}
    /\ bulkRequests = <<>>
    /\ fltRecords = <<>>
    /\ fltMap = EmptyMap
    /\ fltView = NotRun
    /\ lastOp = [op |-> "init"]

\* handleSaveTask, create branch: the task list gets a task with a new id.
SaveNewTask(status, priority) ==
    /\ Len(tasks) < MaxTasks
    /\ tasks' = Append(tasks, [id |-> TaskIdPool[Len(tasks) + 1], status |-> status,
                               priority |-> priority])
    /\ bulkRequests' = <<>>
    /\ lastOp' = [op |-> "saveTask"]
    /\ UNCHANGED <<layoutVars, activeFilters, filterOpen, selectedIds, fltVars, ganttVars, appVars>>

\* The checkbox of a row of the filtered view.
ToggleSelection(id) ==
    /\ id \in VisibleIds
    /\ selectedIds' = IF id \in selectedIds THEN selectedIds \ {id}
                      ELSE selectedIds \cup {id}
    /\ bulkRequests' = <<>>
    /\ lastOp' = [op |-> "toggleSelection", id |-> id]
    /\ UNCHANGED <<layoutVars, tasks, activeFilters, filterOpen, fltVars, ganttVars, appVars>>

\* The select-all checkbox of the header.
ToggleAllSelection ==
    /\ selectedIds' = ToggledAll(selectedIds, FilteredTasks(tasks, activeFilters))
    /\ bulkRequests' = <<>>
    /\ lastOp' = [op |-> "toggleAll", before |-> selectedIds]
    /\ UNCHANGED <<layoutVars, tasks, activeFilters, filterOpen, fltVars, ganttVars, appVars>>

\* The filter button of a column header.
ToggleFilterOpen(key) ==
    /\ filterOpen' = IF filterOpen = key THEN Null ELSE key
    /\ bulkRequests' = <<>>
    /\ lastOp' = [op |-> "filterButton"]
    /\ UNCHANGED <<layoutVars, tasks, activeFilters, selectedIds, fltVars, ganttVars, appVars>>

\* The overlay shown while a popover is open.
CloseFilterOverlay ==
    /\ filterOpen # Null
    /\ filterOpen' = Null
    /\ bulkRequests' = <<>>
    /\ lastOp' = [op |-> "overlay"]
    /\ UNCHANGED <<layoutVars, tasks, activeFilters, selectedIds, fltVars, ganttVars, appVars>>

\* onChange of the filter input of the open popover.
SetFilter(key, value) ==
    /\ filterOpen = key
    /\ activeFilters' = WithEntry(activeFilters, key, value)
    /\ bulkRequests' = <<>>
    /\ lastOp' = [op |-> "setFilter"]
    /\ UNCHANGED <<layoutVars, tasks, filterOpen, selectedIds, fltVars, ganttVars, appVars>>

\* The Clear Filter button of the open popover, shown for an active filter.
ClearFilter(key) ==
    /\ filterOpen = key
    /\ key \in DOMAIN activeFilters /\ Truthy(activeFilters[key])
    /\ activeFilters' = WithoutEntry(activeFilters, key)
    /\ filterOpen' = Null
    /\ bulkRequests' = <<>>
    /\ lastOp' = [op |-> "clearFilter"]
    /\ UNCHANGED <<layoutVars, tasks, selectedIds, fltVars, ganttVars, appVars>>

\* onChange of a select of the bulk action bar, shown for a non-empty selection:
\* onBulkUpdate(Array.from(selectedIds), updates), then the selection is cleared.
BulkChange(updates) ==
    /\ Cardinality(selectedIds) > 0
    /\ bulkRequests' = <<[ids |-> BulkIds(selectedIds, VisibleIds), updates |-> updates]>>
    /\ tasks' = BulkUpdated(tasks, BulkIds(selectedIds, VisibleIds), updates)
    /\ selectedIds' = {}
    /\ lastOp' = [op |-> "bulk"]
    /\ UNCHANGED <<layoutVars, activeFilters, filterOpen, fltVars, ganttVars, appVars>>

BulkStatus(status) == BulkChange([status |-> status])

BulkPriority(priority) == BulkChange([priority |-> priority])

\* The X button of the bulk action bar.
ClearSelection ==
    /\ Cardinality(selectedIds) > 0
    /\ selectedIds' = {}
    /\ bulkRequests' = <<>>
    /\ lastOp' = [op |-> "clearSelection"]
    /\ UNCHANGED <<layoutVars, tasks, activeFilters, filterOpen, fltVars, ganttVars, appVars>>

NextList ==
    \/ \E st \in TaskStatuses, pr \in Priorities : SaveNewTask(st, pr)
    \/ \E id \in VisibleIds : ToggleSelection(id)
    \/ ToggleAllSelection
    \/ \E key \in ListFilterKeys : ToggleFilterOpen(key)
    \/ CloseFilterOverlay
    \/ \E key \in ListFilterKeys : \E value \in FilterOptions(key) : SetFilter(key, value)
    \/ \E key \in ListFilterKeys : ClearFilter(key)
    \/ \E st \in TaskStatuses : BulkStatus(st)
    \/ \E pr \in Priorities : BulkPriority(pr)
    \/ ClearSelection

SpecList == InitList /\ [][NextList]_vars

\* ---------------------------------------------------------------- fractions
RECURSIVE GCD(_, _)
GCD(a, b) == IF b = 0 THEN a ELSE GCD(b, a % b)

Abs(n) == IF n < 0 THEN 0 - n ELSE n

\* The number n / d (d > 0) in lowest terms.
Frac(n, d) ==
    LET g == GCD(Abs(n), d)
    IN  [num |-> n \div g, den |-> d \div g]

FracOfInt(n) == [num |-> n, den |-> 1]

FracMul(a, b) == Frac(a.num * b.num, a.den * b.den)

FracAdd(a, b) == Frac(a.num * b.den + b.num * a.den, a.den * b.den)

FracLeq(a, b) == a.num * b.den <= b.num * a.den

\* Math.max and Math.min on two numbers.
FracMax(a, b) == IF FracLeq(b, a) THEN a ELSE b

FracMin(a, b) == IF FracLeq(a, b) THEN a ELSE b

RECURSIVE Pow(_, _)
Pow(b, n) == IF n = 0 THEN 1 ELSE b * Pow(b, n - 1)

\* ---------------------------------------------------------------- gantt zoom
\* The literals 0.8 and 1.25.
ZoomOutFactor == Frac(8, 10)

ZoomInFactor == Frac(125, 100)

\* Mutant: zooming out has no floor.
MutZoomedOutNoFloor(ppd) == FracMul(ppd, ZoomOutFactor)

\* Math.max(prev * 0.8, 2).
ZoomedOut(ppd) == FracMax(FracMul(ppd, ZoomOutFactor), FracOfInt(MinPixelsPerDay))

\* Math.min(prev * 1.25, 100).
ZoomedIn(ppd) == FracMin(FracMul(ppd, ZoomInFactor), FracOfInt(MaxPixelsPerDay))

\* Mutant: exactly 18 pixels per day is still Monthly.
MutViewModeAbove(ppd) ==
    IF ~FracLeq(ppd, FracOfInt(DailyThreshold)) THEN "Daily" ELSE "Monthly"

\* viewMode: pixelsPerDay >= 18 ? 'Daily' : 'Monthly'.
ViewMode(ppd) ==
    IF FracLeq(FracOfInt(DailyThreshold), ppd) THEN "Daily" ELSE "Monthly"

\* The values of the range input (min 2, max 100, step 1).
SliderValues == MinPixelsPerDay..MaxPixelsPerDay

\* A pixelsPerDay at most MaxZoomSteps zoom clicks away from a whole number.
WithinZoomSteps(ppd) == Pow(20, MaxZoomSteps) % ppd.den = 0

\* No grid is mounted while the Gantt view is shown.
GridUnmounted ==
    /\ currentView = "gantt"
    /\ columnOrder = <<>>
    /\ draggedColumn = Null
    /\ columnWidths = EmptyMap
    /\ resizing = <<>>
    /\ listeners = <<>>
    /\ localStorage = EmptyMap
    /\ tasks = <<>>
    /\ activeFilters = EmptyMap
    /\ filterOpen = Null
    /\ selectedIds = {}
    /\ bulkRequests = <<>>
    /\ fltRecords = <<>>
    /\ fltMap = EmptyMap
    /\ fltView = NotRun

InitZoom ==
    /\ GridUnmounted
    /\ GanttUnmounted
    /\ AppIdle
    /\ lastOp = [op |-> "init"]

\* The zoom-out button.
ZoomOut ==
    /\ WithinZoomSteps(ZoomedOut(pixelsPerDay))
    /\ pixelsPerDay' = ZoomedOut(pixelsPerDay)
    /\ lastOp' = [op |-> "zoomOut"]
    /\ UNCHANGED <<layoutVars, listVars, fltVars, ganttTasks, timezoneWest, appVars>>

\* The zoom-in button.
ZoomIn ==
    /\ WithinZoomSteps(ZoomedIn(pixelsPerDay))
    /\ pixelsPerDay' = ZoomedIn(pixelsPerDay)
    /\ lastOp' = [op |-> "zoomIn"]
    /\ UNCHANGED <<layoutVars, listVars, fltVars, ganttTasks, timezoneWest, appVars>>

\* onChange of the zoom slider.
SetSlider(value) ==
    /\ pixelsPerDay' = FracOfInt(value)
    /\ lastOp' = [op |-> "slider"]
    /\ UNCHANGED <<layoutVars, listVars, fltVars, ganttTasks, timezoneWest, appVars>>

\* The Daily preset button.
PresetDaily ==
    /\ pixelsPerDay' = FracOfInt(DailyPreset)
    /\ lastOp' = [op |-> "presetDaily"]
    /\ UNCHANGED <<layoutVars, listVars, fltVars, ganttTasks, timezoneWest, appVars>>

\* The Monthly preset button.
PresetMonthly ==
    /\ pixelsPerDay' = FracOfInt(MonthlyPreset)
    /\ lastOp' = [op |-> "presetMonthly"]
    /\ UNCHANGED <<layoutVars, listVars, fltVars, ganttTasks, timezoneWest, appVars>>

NextZoom ==
    \/ ZoomOut
    \/ ZoomIn
    \/ \E value \in SliderValues : SetSlider(value)
    \/ PresetDaily
    \/ PresetMonthly

SpecZoom == InitZoom /\ [][NextZoom]_vars

\* ---------------------------------------------------------------- calendar
\* A date string 'YYYY-MM-DD' is the record [y, m, d]; an instant is a number
\* of days (getTime() / 86400000), counted here from 2023-01-01T00:00Z.  All
\* instants of the timeline are UTC midnights: the time zone has a fixed
\* offset (no daylight saving).
IsLeap(y) == (y % 4 = 0 /\ y % 100 # 0) \/ y % 400 = 0

DaysInMonth(y, m) ==
    IF m = 2 THEN (IF IsLeap(y) THEN 29 ELSE 28)
    ELSE IF m \in {4, 6, 9, 11} THEN 30 ELSE 31

DaysInYear(y) == IF IsLeap(y) THEN 366 ELSE 365

\* The days from 2023-01-01 to the first of January of year y.
DaysBeforeYear(y) ==
    (y - 2023) * 365 + Cardinality({z \in 2023..(y - 1) : IsLeap(z)})

\* The days from 2023-01-01 to the first of month m of year y.
RECURSIVE DaysBeforeMonth(_, _)
DaysBeforeMonth(y, m) ==
    IF m = 1 THEN DaysBeforeYear(y)
    ELSE DaysBeforeMonth(y, m - 1) + DaysInMonth(y, m - 1)

\* new Date('YYYY-MM-DD').getTime(), in days: UTC midnight of the date.
ParseDate(date) == DaysBeforeMonth(date.y, date.m) + date.d - 1

\* The date n days after the first of month m of year y.
RECURSIVE DateFrom(_, _, _)
DateFrom(y, m, n) ==
    IF n < DaysInMonth(y, m) THEN [y |-> y, m |-> m, d |-> n + 1]
    ELSE IF m = 1 /\ n >= DaysInYear(y) THEN DateFrom(y + 1, 1, n - DaysInYear(y))
    ELSE DateFrom(IF m = 12 THEN y + 1 ELSE y, IF m = 12 THEN 1 ELSE m + 1,
                  n - DaysInMonth(y, m))

\* The UTC calendar date of an instant.
DateOfDay(t) == DateFrom(2023, 1, t)

\* The local calendar date of an instant that is a UTC midnight: the day
\* before, west of UTC.
LocalDate(t, west) == DateOfDay(IF west THEN t - 1 ELSE t)

\* ---------------------------------------------------------------- gantt
GanttDates == {[y |-> 2024, m |-> 2, d |-> 27], [y |-> 2024, m |-> 3, d |-> 16]}

TaskTypes == {"Task", "Milestone"}

GanttTaskIdPool == <<"g1", "g2", "g3", "g4">>

GanttTaskLists ==
    UNION {{[i \in 1..n |-> [id |-> GanttTaskIdPool[i], type |-> f[i].type,
                             startDate |-> f[i].startDate, dueDate |-> f[i].dueDate]] :
               f \in [1..n -> [type : TaskTypes, startDate : GanttDates,
                               dueDate : GanttDates]]} : n \in 0..MaxGanttTasks}

RECURSIVE InsertByStart(_, _)

\* Mutant: a task goes before the tasks that start on the same day.
MutInsertByStartBeforeEqual(sorted, t) ==
    IF sorted = <<>> THEN <<t>>
    ELSE IF ParseDate(t.startDate) <= ParseDate(Head(sorted).startDate)
         THEN <<t>> \o sorted
         ELSE <<Head(sorted)>> \o InsertByStart(Tail(sorted), t)

\* sortedTasks: Array.prototype.sort (stable) by the start instant.
InsertByStart(sorted, t) ==
    IF sorted = <<>> THEN <<t>>
    ELSE IF ParseDate(t.startDate) < ParseDate(Head(sorted).startDate)
         THEN <<t>> \o sorted
         ELSE <<Head(sorted)>> \o InsertByStart(Tail(sorted), t)

RECURSIVE SortedTasks(_)
SortedTasks(ts) ==
    IF ts = <<>> THEN <<>>
    ELSE InsertByStart(SortedTasks(SubSeq(ts, 1, Len(ts) - 1)), ts[Len(ts)])

\* taskDates, as instants.
TaskDates(ts) ==
    {ParseDate(ts[i].startDate) : i \in 1..Len(ts)} \cup
    {ParseDate(ts[i].dueDate) : i \in 1..Len(ts)}

\* minDateRaw of a non-empty task list (with no task it is the current time,
\* and no bar is placed).
MinDateRaw(ts) == CHOOSE t \in TaskDates(ts) : \A u \in TaskDates(ts) : t <= u

\* startDate of the timeline: minDateRaw moved back by the buffer with
\* setDate(getDate() - n) and, in Monthly mode, to the first of its local month
\* with setDate(1).
StartDate(ts, ppd, west) ==
    LET buffered == MinDateRaw(ts) - (IF ViewMode(ppd) = "Daily" THEN DailyStartBuffer
                                      ELSE MonthlyStartBuffer)
    IN  IF ViewMode(ppd) = "Monthly"
        THEN buffered - (LocalDate(buffered, west).d - 1)
        ELSE buffered

\* maxDateRaw of a non-empty task list.
MaxDateRaw(ts) == CHOOSE t \in TaskDates(ts) : \A u \in TaskDates(ts) : t >= u

\* endDate of the timeline: maxDateRaw moved on by the buffer with
\* setDate(getDate() + n).
EndDate(ts, ppd) ==
    MaxDateRaw(ts) + (IF ViewMode(ppd) = "Daily" THEN DailyEndBuffer
                      ELSE MonthlyEndBuffer)

\* Mutant: the duration leaves out the due day.
MutTaskPositionNoDueDay(task, index, startDate, ppd) ==
    [x |-> FracMul(FracOfInt(ParseDate(task.startDate) - startDate), ppd),
     width |-> FracMul(FracOfInt(ParseDate(task.dueDate) - ParseDate(task.startDate)), ppd),
     y |-> index * RowHeight + RowCentre]

\* The entry of taskPositions for the task at (0-based) index of sortedTasks.
TaskPosition(task, index, startDate, ppd) ==
    LET tStart == ParseDate(task.startDate)
        tEnd == ParseDate(task.dueDate)
        startOffset == tStart - startDate
        duration == tEnd - tStart + 1
    IN  [x |-> FracMul(FracOfInt(startOffset), ppd),
         width |-> FracMul(FracOfInt(duration), ppd),
         y |-> index * RowHeight + RowCentre]

\* taskPositions: the Map from task id to position.
TaskPositions(ts, ppd, west) ==
    LET sorted == SortedTasks(ts)
    IN  [id \in {ts[i].id : i \in 1..Len(ts)} |->
            LET index == CHOOSE i \in 1..Len(sorted) :
                             /\ sorted[i].id = id
                             /\ \A j \in (i + 1)..Len(sorted) : sorted[j].id # id
            IN  TaskPosition(sorted[index], index - 1, StartDate(ts, ppd, west), ppd)]

\* Mutant: the milestone marker is as wide as the computed bar.
MutRenderedBarScaledMarker(task, pos) ==
    IF task.type = "Milestone"
    THEN <<[shape |-> "diamond", left |-> FracAdd(pos.x, FracOfInt(0 - MilestoneHalf)),
            width |-> pos.width]>>
    ELSE IF pos.width.num > 0
         THEN <<[shape |-> "bar", left |-> pos.x, width |-> pos.width]>>
         ELSE <<>>

\* What a row draws for its task: the milestone diamond (w-7, left = x - 14),
\* or the bar if its width is positive; <<>> when nothing is drawn.
RenderedBar(task, pos) ==
    IF task.type = "Milestone"
    THEN <<[shape |-> "diamond", left |-> FracAdd(pos.x, FracOfInt(0 - MilestoneHalf)),
            width |-> FracOfInt(MilestoneSize)]>>
    ELSE IF pos.width.num > 0
         THEN <<[shape |-> "bar", left |-> pos.x, width |-> pos.width]>>
         ELSE <<>>

\* The slider positions tried with tasks on the timeline.
GanttSliderStops == {DailyThreshold - 1, DailyThreshold}

InitGantt ==
    /\ GridUnmounted
    /\ AppIdle
    /\ pixelsPerDay = FracOfInt(InitialPixelsPerDay)
    /\ ganttTasks \in GanttTaskLists
    /\ timezoneWest \in BOOLEAN
    /\ lastOp = [op |-> "init"]

NextGantt ==
    \/ ZoomOut
    \/ ZoomIn
    \/ \E value \in GanttSliderStops : SetSlider(value)
    \/ PresetDaily
    \/ PresetMonthly

SpecGantt == InitGantt /\ [][NextGantt]_vars

\* ------------------------------------------------------ timeline columns
\* The Daily while loop: pass i (from 0) pushes startDate moved on i times by
\* setDate(getDate() + 1); it is made while that instant is <= endDate and
\* i < 1000.
DailyColumns(startDate, endDate) ==
    LET passes == {i \in 0..(DailyColumnCap - 1) : startDate + i <= endDate}
    IN  [i \in 1..Cardinality(passes) |-> startDate + i - 1]

\* Mutant: a month is taken to be thirty days.
MutNextMonthThirtyDays(curr, west) == curr + 30

\* curr.setMonth(curr.getMonth() + 1): the local day of the month is kept, so
\* the instant moves on by the length of the local month of curr.
NextMonth(curr, west) ==
    curr + DaysInMonth(LocalDate(curr, west).y, LocalDate(curr, west).m)

\* The passes of the Monthly while loop from pass safetyLoopCount up to (not
\* including) pass stop: one column per pass while curr <= endDate and fewer
\* than 200 passes were made.
RECURSIVE MonthlyPasses(_, _, _, _, _)
MonthlyPasses(curr, endDate, safetyLoopCount, stop, west) ==
    IF curr <= endDate /\ safetyLoopCount < MonthlyColumnCap /\ safetyLoopCount < stop
    THEN <<curr>> \o MonthlyPasses(NextMonth(curr, west), endDate,
                                   safetyLoopCount + 1, stop, west)
    ELSE <<>>

\* The Monthly while loop, run twelve passes at a time.
RECURSIVE MonthlyColumns(_, _, _, _)
MonthlyColumns(curr, endDate, safetyLoopCount, west) ==
    LET passes == MonthlyPasses(curr, endDate, safetyLoopCount, safetyLoopCount + 12, west)
    IN  IF Len(passes) < 12 THEN passes
        ELSE passes \o MonthlyColumns(NextMonth(passes[12], west), endDate,
                                      safetyLoopCount + 12, west)

\* columns of the timeline, as instants.
TimelineColumns(ts, ppd, west) ==
    IF ViewMode(ppd) = "Daily"
    THEN DailyColumns(StartDate(ts, ppd, west), EndDate(ts, ppd))
    ELSE MonthlyColumns(StartDate(ts, ppd, west), EndDate(ts, ppd), 0, west)

\* totalDays: Math.ceil of the whole number of days from startDate to endDate.
TotalDays(ts, ppd, west) == EndDate(ts, ppd) - StartDate(ts, ppd, west)

\* The width of the header cell of a column.
HeaderWidth(column, ppd, west) ==
    IF ViewMode(ppd) = "Daily" THEN ppd
    ELSE FracMul(FracOfInt(DaysInMonth(LocalDate(column, west).y,
                                       LocalDate(column, west).m)), ppd)

\* The number of grid-line cells of a body row.
GridCells(ts, ppd, west) ==
    IF ViewMode(ppd) = "Daily" THEN TotalDays(ts, ppd, west)
    ELSE Len(TimelineColumns(ts, ppd, west))

\* The width of a body row.
BodyWidth(ts, ppd, west) == FracMul(FracOfInt(TotalDays(ts, ppd, west)), ppd)

\* The dates of the one task on the timeline: near ones, and ones more than
\* DailyColumnCap days and more than MonthlyColumnCap months later.
ColumnDates ==
    {[y |-> 2024, m |-> 2, d |-> 27], [y |-> 2024, m |-> 3, d |-> 17],
     [y |-> 2027, m |-> 1, d |-> 15], [y |-> 2041, m |-> 1, d |-> 10]}

InitColumns ==
    /\ GridUnmounted
    /\ AppIdle
    /\ pixelsPerDay = FracOfInt(InitialPixelsPerDay)
    /\ ganttTasks \in {<<[id |-> GanttTaskIdPool[1], type |-> type,
                           startDate |-> startDate, dueDate |-> dueDate]>> :
                           type \in TaskTypes, startDate \in ColumnDates,
                           dueDate \in ColumnDates}
    /\ timezoneWest \in BOOLEAN
    /\ lastOp = [op |-> "init"]

SpecColumns == InitColumns /\ [][NextGantt]_vars

\* ------------------------------------------------ the two grids side by side
\* The project has one task; the task grid or the issue grid is shown.
InitIsolation ==
    /\ currentView \in GridViews
    /\ columnOrder = DefaultOrder(currentView)
    /\ draggedColumn = Null
    /\ columnWidths = DefaultWidths(currentView)
    /\ resizing = <<>>
    /\ listeners = <<>>
    /\ localStorage = StorageAfterMount(currentView, EmptyMap)
    /\ GanttUnmounted
    /\ AppIdle
    /\ tasks = <<[id |-> TaskIdPool[1], status |-> S_ToDo, priority |-> S_Medium]>>
    /\ activeFilters = EmptyMap
    /\ filterOpen = Null
    /\ selectedIds = {}
    /\ bulkRequests = <<>>
    /\ fltRecords = <<>>
    /\ fltMap = EmptyMap
    /\ fltView = NotRun
    /\ lastOp = [op |-> "init"]

\* The layout operations of the shown grid, view switches, and the filter and
\* selection operations of the task grid.
NextIsolation ==
    \/ NextStorage
    \/ currentView = "list" /\ \E key \in ListFilterKeys : ToggleFilterOpen(key)
    \/ currentView = "list" /\ \E key \in ListFilterKeys : SetFilter(key, S_Done)
    \/ currentView = "list" /\ \E id \in VisibleIds : ToggleSelection(id)

SpecIsolation == InitIsolation /\ [][NextIsolation]_vars

\* ---------------------------------------------------------------- app
\* generateId(): an id nothing has yet, here the first unused one of a pool.
FreshId(pool, used) ==
    pool[CHOOSE i \in 1..Len(pool) :
             pool[i] \notin used /\ \A j \in 1..(i - 1) : pool[j] \in used]

ProjectIdPool == <<"p1", "p2", "p3", "p4", "p5", "p6">>
NewTaskIdPool == <<"n1", "n2", "n3", "n4">>
NewIssueIdPool == <<"j1", "j2", "j3", "j4", "j5", "j6">>

ProjectIds(ps) == {ps[i].id : i \in 1..Len(ps)}
AllTaskIds(ps) == UNION {{ps[i].tasks[k].id : k \in 1..Len(ps[i].tasks)} : i \in 1..Len(ps)}
AllIssueIds(ps) == UNION {{ps[i].issues[k].id : k \in 1..Len(ps[i].issues)} : i \in 1..Len(ps)}

\* currentUser: the workspace member with the id, or the first member.
CurrentUser(uid) ==
    LET found == SelectSeq(WorkspaceMembers, LAMBDA m : m.id = uid)
    IN  IF found # <<>> THEN found[1] ELSE WorkspaceMembers[1]

\* visibleProjects: every project for an Admin or Owner, the projects the
\* user is a member of for anyone else.
VisibleProjects(ps, uid) ==
    IF CurrentUser(uid).role \in {"Admin", "Owner"} THEN ps
    ELSE SelectSeq(ps, LAMBDA p : CurrentUser(uid).id \in p.members)

\* Mutant: the displayed project is always the first visible one.
MutActiveProjectFirstVisible(ps, uid, apid) ==
    IF VisibleProjects(ps, uid) # <<>> THEN <<VisibleProjects(ps, uid)[1]>> ELSE <<>>

\* activeProject: the visible project with id activeProjectId, or the first
\* visible project, or null (<<>>).
ActiveProject(ps, uid, apid) ==
    LET visible == VisibleProjects(ps, uid)
        found == SelectSeq(visible, LAMBDA p : p.id = apid)
    IN  IF found # <<>> THEN <<found[1]>>
        ELSE IF visible # <<>> THEN <<visible[1]>>
        ELSE <<>>

\* activeProject.tasks and activeProject.issues, the props of the views.
DisplayedTasks(ps, uid, apid) ==
    IF ActiveProject(ps, uid, apid) = <<>> THEN <<>>
    ELSE ActiveProject(ps, uid, apid)[1].tasks

DisplayedIssues(ps, uid, apid) ==
    IF ActiveProject(ps, uid, apid) = <<>> THEN <<>>
    ELSE ActiveProject(ps, uid, apid)[1].issues

\* The tasks prop of the mounted view after a render.
ListProp(ps, uid, apid) ==
    IF currentView = "list" THEN DisplayedTasks(ps, uid, apid) ELSE tasks

GanttProp(ps, uid, apid) ==
    IF currentView = "gantt" THEN DisplayedTasks(ps, uid, apid) ELSE ganttTasks

\* A modal covers the page: the sidebar, the header and the views are out of
\* reach while one is open.
ModalClosed == taskFormData = <<>> /\ issueFormData = <<>>

viewVars ==
    <<layoutVars, activeFilters, filterOpen, selectedIds, bulkRequests, fltVars,
      pixelsPerDay, timezoneWest>>
taskModalVars == <<editingTask, taskFormData>>
issueModalVars == <<editingIssue, issueFormData>>

\* A grid view mounted with the default layout over a project's tasks.
GridMounted(view) ==
    /\ currentView = view
    /\ columnOrder = DefaultOrder(view)
    /\ draggedColumn = Null
    /\ columnWidths = DefaultWidths(view)
    /\ resizing = <<>>
    /\ listeners = <<>>
    /\ localStorage = StorageAfterMount(view, EmptyMap)
    /\ activeFilters = EmptyMap
    /\ filterOpen = Null
    /\ selectedIds = {}
    /\ bulkRequests = <<>>
    /\ fltRecords = <<>>
    /\ fltMap = EmptyMap
    /\ fltView = NotRun

\* onClick of a project of the sidebar, which lists visibleProjects.
SelectProject(id) ==
    /\ ModalClosed
    /\ id \in ProjectIds(VisibleProjects(projects, currentUserId))
    /\ activeProjectId' = id
    /\ tasks' = ListProp(projects, currentUserId, id)
    /\ ganttTasks' = GanttProp(projects, currentUserId, id)
    /\ lastOp' = [op |-> "selectProject"]
    /\ UNCHANGED <<viewVars, projects, currentUserId, taskModalVars, issueModalVars>>

\* onChange of the Simulate User select.
SimulateUser(uid) ==
    /\ ModalClosed
    /\ uid \in {WorkspaceMembers[i].id : i \in 1..Len(WorkspaceMembers)}
    /\ currentUserId' = uid
    /\ tasks' = ListProp(projects, uid, activeProjectId)
    /\ ganttTasks' = GanttProp(projects, uid, activeProjectId)
    /\ lastOp' = [op |-> "simulateUser"]
    /\ UNCHANGED <<viewVars, projects, activeProjectId, taskModalVars, issueModalVars>>

\* The member lists a new project is created with.
MemberChoices == {{}, {"u3"}}

\* handleCreateProject, from the New Project button an Admin or Owner sees.
HandleCreateProject(members) ==
    /\ ModalClosed
    /\ CurrentUser(currentUserId).role \in {"Admin", "Owner"}
    /\ Len(projects) < MaxProjects
    /\ LET newProject == [id |-> FreshId(ProjectIdPool, ProjectIds(projects)),
                          members |-> members, tasks |-> <<>>, issues |-> <<>>]
       IN  /\ projects' = Append(projects, newProject)
           /\ activeProjectId' = newProject.id
           /\ tasks' = ListProp(projects', currentUserId, newProject.id)
           /\ ganttTasks' = GanttProp(projects', currentUserId, newProject.id)
           /\ lastOp' = [op |-> "createProject"]
    /\ UNCHANGED <<viewVars, currentUserId, taskModalVars, issueModalVars>>

\* handleDeleteProject, from the settings button of a listed project that an
\* Admin or Owner sees; the last project is never deleted.
HandleDeleteProject(id) ==
    /\ ModalClosed
    /\ CurrentUser(currentUserId).role \in {"Admin", "Owner"}
    /\ id \in ProjectIds(VisibleProjects(projects, currentUserId))
    /\ Len(projects) > 1
    /\ LET remaining == SelectSeq(projects, LAMBDA p : p.id # id)
       IN  /\ projects' = remaining
           /\ activeProjectId' = remaining[1].id
           /\ tasks' = ListProp(remaining, currentUserId, remaining[1].id)
           /\ ganttTasks' = GanttProp(remaining, currentUserId, remaining[1].id)
           /\ lastOp' = [op |-> "deleteProject"]
    /\ UNCHANGED <<viewVars, currentUserId, taskModalVars, issueModalVars>>

\* The statuses a task is given in the form or by a bulk update.
FormStatuses == {"To Do", "Done"}

\* The Add Item button of the header, shown when there is an activeProject:
\* the new-task template, dated today.
OpenNewTask(today) ==
    /\ ModalClosed
    /\ currentView # "issues"
    /\ ActiveProject(projects, currentUserId, activeProjectId) # <<>>
    /\ LET template == [id |-> "new", type |-> "Task", status |-> "To Do",
                        startDate |-> today, dueDate |-> today]
       IN  /\ editingTask' = <<template>>
           /\ taskFormData' = <<template>>
    /\ lastOp' = [op |-> "openNewTask"]
    /\ UNCHANGED <<viewVars, tasks, ganttTasks, projects, activeProjectId, currentUserId,
                   issueModalVars>>

\* onEditTask of a view, with one of the tasks it shows.
OpenEditTask(i) ==
    /\ ModalClosed
    /\ currentView # "issues"
    /\ i \in 1..Len(DisplayedTasks(projects, currentUserId, activeProjectId))
    /\ LET task == DisplayedTasks(projects, currentUserId, activeProjectId)[i]
       IN  /\ editingTask' = <<task>>
           /\ taskFormData' = <<task>>
           /\ lastOp' = [op |-> "openEditTask"]
    /\ UNCHANGED <<viewVars, tasks, ganttTasks, projects, activeProjectId, currentUserId,
                   issueModalVars>>

\* onClose of the task modal.
CloseTaskModal ==
    /\ taskFormData # <<>>
    /\ taskFormData' = <<>>
    /\ lastOp' = [op |-> "closeTaskModal"]
    /\ UNCHANGED <<viewVars, tasks, ganttTasks, projects, activeProjectId, currentUserId,
                   editingTask, issueModalVars>>

\* Mutant: switching to Milestone keeps the start date.
MutWithTypeKeepsStart(formData, newType) == [formData EXCEPT !.type = newType]

\* The form data after onChange of the Type select.
WithType(formData, newType) ==
    IF newType = "Milestone"
    THEN [formData EXCEPT !.type = newType, !.startDate = formData.dueDate]
    ELSE [formData EXCEPT !.type = newType]

\* The form data after onChange of the Due Date input.
WithDueDate(formData, val) ==
    [formData EXCEPT !.dueDate = val,
                     !.startDate = IF formData.type = "Milestone" THEN val
                                   ELSE formData.startDate]

ChangeType(newType) ==
    /\ taskFormData # <<>>
    /\ taskFormData' = <<WithType(taskFormData[1], newType)>>
    /\ lastOp' = [op |-> "changeType"]
    /\ UNCHANGED <<viewVars, tasks, ganttTasks, projects, activeProjectId, currentUserId,
                   editingTask, issueModalVars>>

ChangeDueDate(val) ==
    /\ taskFormData # <<>>
    /\ taskFormData' = <<WithDueDate(taskFormData[1], val)>>
    /\ lastOp' = [op |-> "changeDueDate"]
    /\ UNCHANGED <<viewVars, tasks, ganttTasks, projects, activeProjectId, currentUserId,
                   editingTask, issueModalVars>>

\* onChange of the Start Date input, which is rendered for a Task only.
ChangeStartDate(val) ==
    /\ taskFormData # <<>>
    /\ taskFormData[1].type = "Task"
    /\ taskFormData' = <<[taskFormData[1] EXCEPT !.startDate = val]>>
    /\ lastOp' = [op |-> "changeStartDate"]
    /\ UNCHANGED <<viewVars, tasks, ganttTasks, projects, activeProjectId, currentUserId,
                   editingTask, issueModalVars>>

\* onChange of the Status select of the task form.
ChangeStatus(status) ==
    /\ taskFormData # <<>>
    /\ taskFormData' = <<[taskFormData[1] EXCEPT !.status = status]>>
    /\ lastOp' = [op |-> "changeStatus"]
    /\ UNCHANGED <<viewVars, tasks, ganttTasks, projects, activeProjectId, currentUserId,
                   editingTask, issueModalVars>>

\* The tasks of a project after an update of the task with the id of task.
WithTask(ts, task) == [k \in 1..Len(ts) |-> IF ts[k].id = task.id THEN task ELSE ts[k]]

\* projects after handleSaveTask(task).
SavedTaskProjects(ps, apid, editing, task) ==
    IF editing # <<>> /\ editing[1].id # "new"
    THEN [i \in 1..Len(ps) |->
             IF ps[i].id = apid THEN [ps[i] EXCEPT !.tasks = WithTask(ps[i].tasks, task)]
             ELSE ps[i]]
    ELSE LET newTask == [task EXCEPT !.id = FreshId(NewTaskIdPool, AllTaskIds(ps))]
         IN  [i \in 1..Len(ps) |->
                 IF ps[i].id = apid THEN [ps[i] EXCEPT !.tasks = Append(ps[i].tasks, newTask)]
                 ELSE ps[i]]

\* handleSaveTask, from the Save button of the task form.
HandleSaveTask ==
    /\ taskFormData # <<>>
    /\ editingTask[1].id = "new" =>
           Cardinality(AllTaskIds(projects) \cap Range(NewTaskIdPool)) < MaxNewTasks
    /\ projects' = SavedTaskProjects(projects, activeProjectId, editingTask, taskFormData[1])
    /\ taskFormData' = <<>>
    /\ editingTask' = <<>>
    /\ tasks' = ListProp(projects', currentUserId, activeProjectId)
    /\ ganttTasks' = GanttProp(projects', currentUserId, activeProjectId)
    /\ lastOp' = [op |-> "saveTask", task |-> taskFormData[1]]
    /\ UNCHANGED <<viewVars, activeProjectId, currentUserId, issueModalVars>>

\* handleBulkUpdateTasks, called by the task list with ids of tasks it shows.
HandleBulkUpdateTasks(taskIds, updates) ==
    /\ ModalClosed
    /\ currentView = "list"
    /\ taskIds # {}
    /\ taskIds \subseteq {tasks[k].id : k \in 1..Len(tasks)}
    /\ projects' =
           [i \in 1..Len(projects) |->
               IF projects[i].id = activeProjectId
               THEN [projects[i] EXCEPT !.tasks =
                        [k \in 1..Len(@) |->
                            IF @[k].id \in taskIds
                            THEN [@[k] EXCEPT !.status = updates.status]
                            ELSE @[k]]]
               ELSE projects[i]]
    /\ tasks' = ListProp(projects', currentUserId, activeProjectId)
    /\ ganttTasks' = GanttProp(projects', currentUserId, activeProjectId)
    /\ lastOp' = [op |-> "bulkUpdate"]
    /\ UNCHANGED <<viewVars, activeProjectId, currentUserId, taskModalVars, issueModalVars>>

\* The task list shows the seed projects to the first member.
InitProjects ==
    /\ GridMounted("list")
    /\ GanttUnmounted
    /\ AppIdle
    /\ tasks = DisplayedTasks(InitialProjects, "u1", "p1")
    /\ lastOp = [op |-> "init"]

NextProjects ==
    \/ \E id \in ProjectIds(projects) : SelectProject(id)
    \/ \E i \in 1..Len(WorkspaceMembers) : SimulateUser(WorkspaceMembers[i].id)
    \/ \E members \in MemberChoices : HandleCreateProject(members)
    \/ \E id \in ProjectIds(projects) : HandleDeleteProject(id)
    \/ OpenNewTask(SeedToday)
    \/ \E i \in 1..(MaxNewTasks + 1) : OpenEditTask(i)
    \/ \E status \in FormStatuses : ChangeStatus(status)
    \/ CloseTaskModal
    \/ HandleSaveTask
    \/ \E taskIds \in SUBSET AllTaskIds(projects), status \in FormStatuses :
           HandleBulkUpdateTasks(taskIds, [status |-> status])

SpecProjects == InitProjects /\ [][NextProjects]_vars

\* ---------------------------------------------------------------- task form
\* The Gantt view shows the seed project, in Daily or Monthly zoom, and tasks
\* are created and edited through the task form.
InitTaskForm ==
    /\ GridUnmounted
    /\ AppIdle
    /\ pixelsPerDay \in {FracOfInt(DailyPreset), FracOfInt(MonthlyPreset)}
    /\ ganttTasks = DisplayedTasks(InitialProjects, "u1", "p1")
    /\ timezoneWest \in BOOLEAN
    /\ lastOp = [op |-> "init"]

NextTaskForm ==
    \/ \E today \in GanttDates : OpenNewTask(today)
    \/ \E i \in 1..(MaxNewTasks + 1) : OpenEditTask(i)
    \/ \E newType \in TaskTypes : ChangeType(newType)
    \/ \E val \in GanttDates : ChangeDueDate(val)
    \/ \E val \in GanttDates : ChangeStartDate(val)
    \/ CloseTaskModal
    \/ HandleSaveTask

SpecTaskForm == InitTaskForm /\ [][NextTaskForm]_vars

\* ---------------------------------------------------------------- issues
IssueStatuses == {"Open", "In Progress", "Resolved", "Closed"}

\* The days issues are saved on, as toISOString().split('T')[0] gives them.
IssueDates == {"2024-03-01", "2024-03-02"}

\* !closedDate: the field is absent or the empty string.
NoClosedDate(issue) == issue.closedDate \in {Undefined, ""}

\* Mutant: a Resolved or Closed issue is always closed on the day of the save.
MutProcessedIssueAlwaysToday(issue, today) ==
    IF issue.status \in {"Resolved", "Closed"}
    THEN [issue EXCEPT !.closedDate = today]
    ELSE IF issue.status \in {"Open", "In Progress"}
         THEN [issue EXCEPT !.closedDate = Undefined]
         ELSE issue

\* processedIssue of handleSaveIssue, saved on the day today.
ProcessedIssue(issue, today) ==
    IF issue.status \in {"Resolved", "Closed"} /\ NoClosedDate(issue)
    THEN [issue EXCEPT !.closedDate = today]
    ELSE IF issue.status \in {"Open", "In Progress"}
         THEN [issue EXCEPT !.closedDate = Undefined]
         ELSE issue

\* The Add Issue button of the header: the new-issue template.
OpenNewIssue ==
    /\ ModalClosed
    /\ currentView = "issues"
    /\ ActiveProject(projects, currentUserId, activeProjectId) # <<>>
    /\ LET template == [id |-> "new", status |-> "Open", closedDate |-> Undefined]
       IN  /\ editingIssue' = <<template>>
           /\ issueFormData' = <<template>>
    /\ lastOp' = [op |-> "openNewIssue"]
    /\ UNCHANGED <<viewVars, tasks, ganttTasks, projects, activeProjectId, currentUserId,
                   taskModalVars>>

\* onEditIssue of the issue log, with one of the issues it shows.
OpenEditIssue(i) ==
    /\ ModalClosed
    /\ currentView = "issues"
    /\ i \in 1..Len(DisplayedIssues(projects, currentUserId, activeProjectId))
    /\ LET issue == DisplayedIssues(projects, currentUserId, activeProjectId)[i]
       IN  /\ editingIssue' = <<issue>>
           /\ issueFormData' = <<issue>>
    /\ lastOp' = [op |-> "openEditIssue"]
    /\ UNCHANGED <<viewVars, tasks, ganttTasks, projects, activeProjectId, currentUserId,
                   taskModalVars>>

\* onChange of the Status select of the issue form.
ChangeIssueStatus(status) ==
    /\ issueFormData # <<>>
    /\ issueFormData' = <<[issueFormData[1] EXCEPT !.status = status]>>
    /\ lastOp' = [op |-> "changeIssueStatus"]
    /\ UNCHANGED <<viewVars, tasks, ganttTasks, projects, activeProjectId, currentUserId,
                   editingIssue, taskModalVars>>

\* onClose of the issue modal.
CloseIssueModal ==
    /\ issueFormData # <<>>
    /\ issueFormData' = <<>>
    /\ lastOp' = [op |-> "closeIssueModal"]
    /\ UNCHANGED <<viewVars, tasks, ganttTasks, projects, activeProjectId, currentUserId,
                   editingIssue, taskModalVars>>

\* The issues of a project after an update of the issue with an id.
WithIssue(is, id, processedIssue) ==
    [k \in 1..Len(is) |-> IF is[k].id = id THEN processedIssue ELSE is[k]]

\* handleSaveIssue, from the Save button of the issue form, on the day today.
HandleSaveIssue(today) ==
    /\ issueFormData # <<>>
    /\ LET issue == issueFormData[1]
           processedIssue == ProcessedIssue(issue, today)
           newIssue == [processedIssue EXCEPT
                            !.id = FreshId(NewIssueIdPool, AllIssueIds(projects))]
           isUpdate == editingIssue # <<>> /\ editingIssue[1].id # "new"
       IN  /\ ~isUpdate => \A i \in 1..Len(projects) :
                  projects[i].id = activeProjectId => Len(projects[i].issues) < MaxIssues
           /\ projects' =
                  [i \in 1..Len(projects) |->
                      IF projects[i].id = activeProjectId
                      THEN [projects[i] EXCEPT !.issues =
                               IF isUpdate THEN WithIssue(@, issue.id, processedIssue)
                               ELSE Append(@, newIssue)]
                      ELSE projects[i]]
           /\ lastOp' = [op |-> "saveIssue", issue |-> issue, today |-> today,
                         id |-> IF isUpdate THEN issue.id ELSE newIssue.id]
    /\ issueFormData' = <<>>
    /\ editingIssue' = <<>>
    /\ UNCHANGED <<viewVars, tasks, ganttTasks, activeProjectId, currentUserId, taskModalVars>>

\* The issue log shows the seed project.
InitIssues ==
    /\ GridMounted("issues")
    /\ GanttUnmounted
    /\ AppIdle
    /\ tasks = <<>>
    /\ lastOp = [op |-> "init"]

NextIssues ==
    \/ OpenNewIssue
    \/ \E i \in 1..MaxIssues : OpenEditIssue(i)
    \/ \E status \in IssueStatuses : ChangeIssueStatus(status)
    \/ CloseIssueModal
    \/ \E today \in IssueDates : HandleSaveIssue(today)

SpecIssues == InitIssues /\ [][NextIssues]_vars

\* ======================================================== the claims
\* sub occurs in s when letter case is ignored, stated character by character.
ContainsIgnoringCase(s, sub) ==
    \E off \in 0..(Len(s) - Len(sub)) :
        \A j \in 1..Len(sub) : LowerChar(s[off + j]) = LowerChar(sub[j])

\* The string form of a field, a missing field counting as the empty string.
StringForm(rec, key) == IF key \in DOMAIN rec THEN rec[key] ELSE <<>>

\* The filter policy as the claim words it.
PassesPolicy(rec, filters) ==
    \A key \in DOMAIN filters :
        filters[key] # <<>> =>
            IF key \in {"status", "priority"}
            THEN key \in DOMAIN rec /\ rec[key] = filters[key]
            ELSE ContainsIgnoringCase(StringForm(rec, key), filters[key])

\* a is b with some elements left out, the others in their order (b has no
\* element twice).
IsSubsequence(a, b) ==
    /\ Range(a) \subseteq Range(b)
    /\ a = SelectSeq(b, LAMBDA x : x \in Range(a))

\* C8: a record is in the filtered view iff it passes every entry with a
\* non-empty value: status and priority by exact equality, every other key by
\* case-insensitive containment in the field's string form (missing = "").
C8_FilterPolicy ==
    fltView # NotRun =>
        \A i \in 1..Len(fltRecords) :
            (fltRecords[i] \in Range(fltView[1])) <=> PassesPolicy(fltRecords[i], fltMap)

\* C8 witness: "do" on title matched "Done" ignoring case, status "Done" kept
\* the record with exactly that status and dropped the one with "Doing".
C8_Witness ==
    /\ fltView # NotRun
    /\ DOMAIN fltMap = {"status", "title"}
    /\ fltMap["title"] = S_do /\ fltMap["status"] = S_Done
    /\ Len(fltRecords) = 2
    /\ fltRecords[1].title = S_Done /\ fltRecords[1].status = S_Done
    /\ fltRecords[2].status = S_Doing
    /\ fltView[1] = <<fltRecords[1]>>

\* C9: the filtered view is a subsequence of the input in its order, and it is
\* the whole input when no entry of the filter map has a non-empty value.
C9_StableFilterIdentity ==
    fltView # NotRun =>
        /\ IsSubsequence(fltView[1], fltRecords)
        /\ (\A key \in DOMAIN fltMap : fltMap[key] = <<>>) => fltView[1] = fltRecords

\* C9 witness: a map holding only empty values returned both records, in order.
C9_Witness ==
    /\ fltView # NotRun
    /\ DOMAIN fltMap = {"status", "title"}
    /\ \A key \in DOMAIN fltMap : fltMap[key] = <<>>
    /\ Len(fltRecords) = 2
    /\ fltView[1] = fltRecords

\* arr without x.
Without(arr, x) == SelectSeq(arr, LAMBDA y : y # x)

IsPermutationOf(a, b) ==
    /\ Len(a) = Len(b)
    /\ Range(a) = Range(b)
    /\ \A i, j \in 1..Len(a) : a[i] = a[j] => i = j

\* C1 as stated: after a drop of a column on another one, the dragged column
\* sits immediately before the target.
C1_AlwaysBeforeTarget ==
    (lastOp.op = "drop" /\ lastOp.moved) =>
        IndexOf(columnOrder, lastOp.dragged) = IndexOf(columnOrder, lastOp.target) - 1

\* C1 amended: after a drop of a column on another one, the dragged column
\* sits at the index the target had before the drop: immediately before the
\* target when it came from the right, immediately after it when it came
\* from the left.
C1_TakesTargetIndex ==
    (lastOp.op = "drop" /\ lastOp.moved) =>
        LET d == IndexOf(columnOrder, lastOp.dragged)
            t == IndexOf(columnOrder, lastOp.target)
        IN  /\ d = lastOp.targetIdx
            /\ lastOp.draggedIdx > lastOp.targetIdx => d = t - 1
            /\ lastOp.draggedIdx < lastOp.targetIdx => d = t + 1

\* C1 witness: a column dragged from the left of its target was dropped.
C1_Witness ==
    /\ lastOp.op = "drop" /\ lastOp.moved
    /\ lastOp.draggedIdx < lastOp.targetIdx
    /\ columnOrder # DefaultOrder(currentView)

\* The default order with its 4th column dropped on its 2nd.
FourthOnSecond(view) ==
    LET D == DefaultOrder(view)
    IN  <<D[1], D[4], D[2], D[3]>> \o SubSeq(D, 5, Len(D))

\* C2: the column order stays a permutation of the grid's keys; a reorder
\* leaves the order of the columns other than the dragged one unchanged; and
\* [A,B,C,D] with D dropped on B gives [A,D,B,C].
C2_ReorderIsSplice ==
    [][/\ IsPermutationOf(columnOrder, DefaultOrder(currentView))
       /\ IsPermutationOf(columnOrder', DefaultOrder(currentView))
       /\ Without(columnOrder', draggedColumn) = Without(columnOrder, draggedColumn)
       /\ (/\ columnOrder = DefaultOrder(currentView)
           /\ draggedColumn = columnOrder[4]
           /\ lastOp'.op = "drop" /\ lastOp'.target = columnOrder[2])
          => columnOrder' = FourthOnSecond(currentView)]_vars

\* C2 witness: D was dropped on B in the default order [A,B,C,D].
C2_Witness ==
    /\ lastOp.op = "drop" /\ lastOp.moved
    /\ lastOp.draggedIdx = 3 /\ lastOp.targetIdx = 1
    /\ columnOrder = FourthOnSecond(currentView)

\* C10: every stored width is at least 80; a resize captures the pointer's x
\* and the column's width at its start, and every pointer-move sets that
\* column's width to max(80, startWidth + (currentX - startX)) from the
\* captured values, which the move leaves as they are.
C10_ResizeFloorFromStart ==
    [][/\ \A k \in DOMAIN columnWidths : columnWidths[k] >= 80
       /\ \A k \in DOMAIN columnWidths' : columnWidths'[k] >= 80
       /\ lastOp'.op = "startResize" =>
              /\ resizing'[1].key = lastOp'.key
              /\ resizing'[1].startX = lastOp'.clientX
              /\ resizing'[1].startWidth = columnWidths[lastOp'.key]
       /\ lastOp'.op = "mouseMove" =>
              /\ resizing # <<>> /\ resizing' = resizing
              /\ LET sum == resizing[1].startWidth + (lastOp'.clientX - resizing[1].startX)
                 IN  columnWidths'[resizing[1].key] = IF sum >= 80 THEN sum ELSE 80]_vars

\* C10 witness: a pointer-move left of the start clamped a column to 80 while
\* the resize is still going on.
C10_Witness ==
    /\ lastOp.op = "mouseMove" /\ resizing # <<>>
    /\ columnWidths[resizing[1].key] = 80
    /\ resizing[1].startWidth + (lastOp.clientX - resizing[1].startX) < 80

\* C3 as stated: the selected ids are always ids of the current filtered view.
C3_SelectionWithinView == selectedIds \subseteq VisibleIds

\* C4 as stated: toggleAll clears the selection exactly when the view is
\* non-empty and every id of it was selected, and otherwise sets the selection
\* to exactly the ids of the view.
C4_ToggleAllBySetEquality ==
    lastOp.op = "toggleAll" =>
        IF VisibleIds # {} /\ VisibleIds \subseteq lastOp.before
        THEN selectedIds = {}
        ELSE selectedIds = VisibleIds

\* C5: with a non-empty view and an empty selection, toggleAll selects exactly
\* the visible ids, and a toggleAll right after that one empties the selection.
C5_ToggleAllTwice ==
    [][lastOp'.op = "toggleAll" =>
          /\ (selectedIds = {} /\ VisibleIds # {}) => selectedIds' = VisibleIds
          /\ (lastOp.op = "toggleAll" /\ lastOp.before = {} /\ VisibleIds # {})
                 => selectedIds' = {}]_vars

\* C5 witness: three visible ids were all selected from nothing and a second
\* toggleAll has emptied the selection again.
C5_Witness ==
    /\ lastOp.op = "toggleAll"
    /\ Cardinality(VisibleIds) = 3
    /\ lastOp.before = VisibleIds
    /\ selectedIds = {}

\* C6 as stated: the indeterminate indicator is on iff the selection is
\* non-empty and a strict subset of the visible ids.
C6_IndeterminateIsStrictSubset ==
    IsIndeterminate <=>
        (selectedIds # {} /\ selectedIds \subseteq VisibleIds /\ selectedIds # VisibleIds)

\* C7: a bulk change makes exactly one onBulkUpdate call, with exactly the ids
\* selected at that moment and an update of the one field chosen, and leaves
\* the selection empty.
C7_BulkUpdateThenClear ==
    [][lastOp'.op = "bulk" =>
          /\ Len(bulkRequests') = 1
          /\ bulkRequests'[1].ids = selectedIds
          /\ \/ /\ DOMAIN bulkRequests'[1].updates = {"status"}
                /\ bulkRequests'[1].updates.status \in FormStatuses
             \/ /\ DOMAIN bulkRequests'[1].updates = {"priority"}
                /\ bulkRequests'[1].updates.priority \in Priorities
          /\ selectedIds' = {}]_vars

\* C7 witness: a bulk status change was sent for two selected tasks, one of
\* them hidden by the filter, and the selection is empty.
C7_Witness ==
    /\ lastOp.op = "bulk"
    /\ Len(bulkRequests) = 1
    /\ Cardinality(bulkRequests[1].ids) = 2
    /\ ~(bulkRequests[1].ids \subseteq VisibleIds)
    /\ DOMAIN bulkRequests[1].updates = {"status"}
    /\ selectedIds = {}

\* C11: a pointer-move during the resize of column k changes the width of k
\* only: the other widths, the column order, the filter map, the selection
\* and the records stay as they were.
C11_MoveChangesOnlyResizedWidth ==
    [][(resizing # <<>> /\ lastOp'.op = "mouseMove") =>
          /\ DOMAIN columnWidths' = DOMAIN columnWidths
          /\ \A k \in DOMAIN columnWidths \ {resizing[1].key} :
                 columnWidths'[k] = columnWidths[k]
          /\ columnOrder' = columnOrder
          /\ activeFilters' = activeFilters
          /\ selectedIds' = selectedIds
          /\ tasks' = tasks]_vars

\* C11 witness: a pointer-move changed the resized column while another
\* column, resized before, keeps its width.
C11_Witness ==
    /\ lastOp.op = "mouseMove" /\ resizing # <<>>
    /\ columnWidths[resizing[1].key] # resizing[1].startWidth
    /\ \E k \in DOMAIN columnWidths \ {resizing[1].key} :
           columnWidths[k] # DefaultWidths(currentView)[k]

\* C12: a pointer-up while a resize is in progress ends it; the window
\* listeners are registered exactly while a resize is in progress (one pair,
\* capturing the current resize); and with no resize in progress no
\* pointer-move changes a width.
C12_PointerUpEndsResize ==
    [][/\ (resizing # <<>> /\ lastOp'.op \in {"mouseUp", "mouseUpUnheard"}) =>
              resizing' = <<>>
       /\ listeners' = resizing'
       /\ (resizing = <<>> /\ lastOp'.op \in {"mouseMove", "mouseMoveUnheard"}) =>
              columnWidths' = columnWidths]_vars

\* C12 witness: after a resize that changed a width was ended, the pointer
\* moved.
C12_Witness ==
    /\ lastOp.op = "mouseMoveUnheard" /\ resizing = <<>>
    /\ \E k \in DOMAIN columnWidths : columnWidths[k] # DefaultWidths(currentView)[k]

\* C13 as stated: after any drop on a header, a drop on the dragged column
\* itself included, no dragged column is recorded.
C13_DropEndsDrag == lastOp.op = "drop" => draggedColumn = Null

\* C14 as stated: a column drag that ends without a drop on a header leaves
\* the order unchanged and no dragged column recorded.
C14_AbandonedDragIsIdle ==
    [][lastOp'.op = "dragEnd" =>
          (columnOrder' = columnOrder /\ draggedColumn' = Null)]_vars

C16_DailyFromEighteen ==
    /\ ViewMode(pixelsPerDay) \in {"Daily", "Monthly"}
    /\ ViewMode(pixelsPerDay) = "Daily" <=> pixelsPerDay.num >= 18 * pixelsPerDay.den
    /\ ViewMode(FracOfInt(17)) = "Monthly" /\ ViewMode(FracOfInt(18)) = "Daily"
    /\ lastOp.op = "presetDaily" => ViewMode(pixelsPerDay) = "Daily"
    /\ lastOp.op = "presetMonthly" => ViewMode(pixelsPerDay) = "Monthly"

\* C16 witness: a zoom click gave exactly 18 pixels per day.
C16_Witness ==
    /\ lastOp.op \in {"zoomOut", "zoomIn"}
    /\ pixelsPerDay = FracOfInt(18)

\* C17: from the initial 40, after any sequence of zoom-out, zoom-in, slider
\* and preset operations pixelsPerDay is in [2, 100].
C17_ZoomWithinBounds ==
    /\ 2 * pixelsPerDay.den <= pixelsPerDay.num
    /\ pixelsPerDay.num <= 100 * pixelsPerDay.den

\* C17 witness: a zoom-out was stopped by the floor of 2.
C17_Witness == lastOp.op = "zoomOut" /\ pixelsPerDay = FracOfInt(2)

\* The date after a date, and the number of days from a date to a later one,
\* counted one day at a time.
NextDate(date) ==
    IF date.d < DaysInMonth(date.y, date.m) THEN [date EXCEPT !.d = date.d + 1]
    ELSE IF date.m < 12 THEN [y |-> date.y, m |-> date.m + 1, d |-> 1]
    ELSE [y |-> date.y + 1, m |-> 1, d |-> 1]

DateBefore(a, b) ==
    \/ a.y < b.y
    \/ a.y = b.y /\ a.m < b.m
    \/ a.y = b.y /\ a.m = b.m /\ a.d < b.d

RECURSIVE DaysFromTo(_, _)
DaysFromTo(a, b) == IF a = b THEN 0 ELSE 1 + DaysFromTo(NextDate(a), b)

SignedDays(a, b) == IF DateBefore(b, a) THEN 0 - DaysFromTo(b, a) ELSE DaysFromTo(a, b)

\* The position of the task with an id, and the first day of the timeline.
PositionOf(id) == TaskPositions(ganttTasks, pixelsPerDay, timezoneWest)[id]

RangeStartDate == DateOfDay(StartDate(ganttTasks, pixelsPerDay, timezoneWest))

\* C18: for every task and every pixelsPerDay, the bar's x is (days from the
\* range start to startDate) * pixelsPerDay and its width is (days from
\* startDate to dueDate + 1) * pixelsPerDay; a task with startDate = dueDate
\* is exactly pixelsPerDay wide (40 at 40).
C18_BarGeometry ==
    \A i \in 1..Len(ganttTasks) :
        LET t == ganttTasks[i]
            pos == PositionOf(t.id)
        IN  /\ pos.x.num * pixelsPerDay.den =
                   SignedDays(RangeStartDate, t.startDate) * pixelsPerDay.num * pos.x.den
            /\ pos.width.num * pixelsPerDay.den =
                   (SignedDays(t.startDate, t.dueDate) + 1) * pixelsPerDay.num
                       * pos.width.den
            /\ t.startDate = t.dueDate =>
                   /\ pos.width = pixelsPerDay
                   /\ pixelsPerDay = FracOfInt(40) => pos.width = FracOfInt(40)

\* C18 witness: at a pixelsPerDay that is no whole number, a one-day task
\* that does not start first is on the timeline.
C18_Witness ==
    /\ pixelsPerDay.den > 1
    /\ \E i \in 1..Len(ganttTasks) :
           /\ ganttTasks[i].startDate = ganttTasks[i].dueDate
           /\ ParseDate(ganttTasks[i].startDate) > MinDateRaw(ganttTasks)
           /\ PositionOf(ganttTasks[i].id).width = pixelsPerDay

\* C19: at every pixelsPerDay a Milestone is drawn as a marker 28 px wide
\* with its centre at the task's x (left = x - 14), whatever the computed
\* width; a Task whose due date is not before its start is drawn from x with
\* the computed width, (days + 1) * pixelsPerDay.
C19_MilestoneMarker ==
    \A i \in 1..Len(ganttTasks) :
        LET t == ganttTasks[i]
            pos == PositionOf(t.id)
            bar == RenderedBar(t, pos)
        IN  /\ t.type = "Milestone" =>
                   /\ bar # <<>>
                   /\ bar[1].width = FracOfInt(28)
                   /\ (bar[1].left.num + 14 * bar[1].left.den) * pos.x.den =
                          pos.x.num * bar[1].left.den
            /\ (t.type = "Task" /\ ~DateBefore(t.dueDate, t.startDate)) =>
                   /\ bar # <<>>
                   /\ bar[1].left = pos.x
                   /\ bar[1].width.num * pixelsPerDay.den =
                          (SignedDays(t.startDate, t.dueDate) + 1) * pixelsPerDay.num
                              * bar[1].width.den

\* C19 witness: after a zoom change, a Milestone and a Task with the same
\* dates are on the timeline, and the computed width is not 28.
C19_Witness ==
    /\ lastOp.op # "init" /\ pixelsPerDay # FracOfInt(40)
    /\ \E i, j \in 1..Len(ganttTasks) :
           /\ ganttTasks[i].type = "Milestone" /\ ganttTasks[j].type = "Task"
           /\ ganttTasks[i].startDate = ganttTasks[j].startDate
           /\ ganttTasks[i].dueDate = ganttTasks[j].dueDate
           /\ PositionOf(ganttTasks[i].id).width # FracOfInt(28)
           /\ RenderedBar(ganttTasks[j], PositionOf(ganttTasks[j].id)) # <<>>

\* C20: for each grid, after every step the widths and the order stored under
\* the grid's keys are those in memory, and initialising the grid from
\* storage gives the same widths and order: at once, after a reload, and
\* after switching to the other grid and back (the grid left behind keeps its
\* stored layout while the other grid is shown).
C20_PersistedLayoutRoundTrip ==
    [][/\ ParseWidths(localStorage'[WidthsKey(currentView')]) = columnWidths'
       /\ ParseOrder(localStorage'[OrderKey(currentView')]) = columnOrder'
       /\ WidthsInitializer(currentView', localStorage') = columnWidths'
       /\ OrderInitializer(currentView', localStorage') = columnOrder'
       /\ lastOp'.op = "reload" =>
              (columnWidths' = columnWidths /\ columnOrder' = columnOrder)
       /\ lastOp'.op = "switchView" =>
              /\ WidthsInitializer(currentView, localStorage') = columnWidths
              /\ OrderInitializer(currentView, localStorage') = columnOrder
       /\ currentView' = currentView =>
              \A view \in GridViews \ {currentView} :
                  /\ WidthsInitializer(view, localStorage') =
                         WidthsInitializer(view, localStorage)
                  /\ OrderInitializer(view, localStorage') =
                         OrderInitializer(view, localStorage)]_vars

\* C20 witness: a grid whose order and widths had been changed is shown again
\* after the other grid, with that order and those widths.
C20_Witness ==
    /\ lastOp.op = "switchView"
    /\ columnOrder # DefaultOrder(currentView)
    /\ columnWidths # DefaultWidths(currentView)

\* C21 as stated: after a grid was initialised from a stored layout that
\* lacks a column key in its widths or in its order, every column key of
\* the grid is in the order and has a width, the default one where the
\* stored widths lacked the key.
C21_MissingKeyFallsBack ==
    lastOp.op = "mountLegacy" =>
        \A k \in Range(DefaultOrder(currentView)) :
            /\ k \in Range(columnOrder)
            /\ k \in DOMAIN columnWidths
            /\ k \in lastOp.widthsLacked =>
                   columnWidths[k] = DefaultWidths(currentView)[k]

\* The storage keys of a grid, and the entries a storage holds under them.
LayoutKeys(view) == {WidthsKey(view), OrderKey(view)}

StoredUnder(storage, keys) == [k \in keys \cap DOMAIN storage |-> storage[k]]

\* C22: no operation on the shown grid (resize, reorder, filter, selection)
\* changes what is stored under the other grid's keys; a grid that mounts
\* takes its widths and order from its own keys only, starts with an empty
\* filter map, and leaves the entries of the grid it replaces as they were.
C22_GridsIsolated ==
    [][\A other \in GridViews \ {currentView} :
          /\ LayoutKeys(other) \cap LayoutKeys(currentView) = {}
          /\ currentView' = currentView =>
                 StoredUnder(localStorage', LayoutKeys(other)) =
                     StoredUnder(localStorage, LayoutKeys(other))
          /\ currentView' = other =>
                 LET own == StoredUnder(localStorage, LayoutKeys(other))
                 IN  /\ columnWidths' = WidthsInitializer(other, own)
                     /\ columnOrder' = OrderInitializer(other, own)
                     /\ activeFilters' = EmptyMap
                     /\ StoredUnder(localStorage', LayoutKeys(currentView)) =
                            StoredUnder(localStorage, LayoutKeys(currentView))]_vars

\* C22 witness: a filter was set on the task grid while the issue grid's
\* stored order and widths, changed earlier, are not the defaults.
C22_Witness ==
    /\ lastOp.op = "setFilter" /\ currentView = "list"
    /\ LayoutKeys("issues") \subseteq DOMAIN localStorage
    /\ ParseOrder(localStorage[OrderKey("issues")]) # DefaultOrder("issues")
    /\ ParseWidths(localStorage[WidthsKey("issues")]) # DefaultWidths("issues")
    /\ columnOrder # DefaultOrder("list")

\* The first day of the month of a date.
FirstOfMonth(date) == [date EXCEPT !.d = 1]

\* C23 as stated: the visible range is [minDate - 5, maxDate + 10] in Daily
\* mode and [first day of the month containing minDate - 15, maxDate + 45]
\* in Monthly mode, minDate and maxDate being the earliest and the latest of
\* the tasks' start and due dates.
C23_VisibleRange ==
    ganttTasks # <<>> =>
        LET minDate == MinDateRaw(ganttTasks)
            maxDate == MaxDateRaw(ganttTasks)
            rangeStart == StartDate(ganttTasks, pixelsPerDay, timezoneWest)
            rangeEnd == EndDate(ganttTasks, pixelsPerDay)
        IN  IF pixelsPerDay.num >= 18 * pixelsPerDay.den
            THEN rangeStart = minDate - 5 /\ rangeEnd = maxDate + 10
            ELSE /\ rangeStart = ParseDate(FirstOfMonth(DateOfDay(minDate - 15)))
                 /\ rangeEnd = maxDate + 45

\* The row index of the task with an id, from the y of its position.
RowOf(id) == (PositionOf(id).y - 24) \div 48

\* C24: the N tasks get the distinct rows 0..N-1; a task with an earlier
\* start date has a smaller row; tasks with equal start dates keep their
\* order in the task list.
C24_RowsByStableSort ==
    LET n == Len(ganttTasks)
    IN  /\ \A i \in 1..n : PositionOf(ganttTasks[i].id).y = RowOf(ganttTasks[i].id) * 48 + 24
        /\ {RowOf(ganttTasks[i].id) : i \in 1..n} = 0..(n - 1)
        /\ \A i, j \in 1..n :
               /\ DateBefore(ganttTasks[i].startDate, ganttTasks[j].startDate) =>
                      RowOf(ganttTasks[i].id) < RowOf(ganttTasks[j].id)
               /\ (i < j /\ ganttTasks[i].startDate = ganttTasks[j].startDate) =>
                      RowOf(ganttTasks[i].id) < RowOf(ganttTasks[j].id)

\* C24 witness: the second task of the list starts before the first and has
\* row 0, or starts on the same day and has row 1.
C24_Witness ==
    /\ Len(ganttTasks) = 2
    /\ \/ /\ DateBefore(ganttTasks[2].startDate, ganttTasks[1].startDate)
          /\ RowOf(ganttTasks[2].id) = 0
       \/ /\ ganttTasks[2].startDate = ganttTasks[1].startDate
          /\ RowOf(ganttTasks[2].id) = 1

\* The number of calendar months from the month of one date through the month
\* of another.
MonthsThrough(from, to) == (to.y - from.y) * 12 + (to.m - from.m) + 1

\* The month i - 1 months after the month of a date, as its first day.
MonthAfter(date, i) ==
    LET k == date.m - 1 + i - 1
    IN  [y |-> date.y + (k \div 12), m |-> (k % 12) + 1, d |-> 1]

SmallerOf(a, b) == IF a <= b THEN a ELSE b

\* C25: in Daily mode the columns are the days rangeStart, rangeStart + 1, ...
\* up to rangeEnd, cut to the first 1000; in Monthly mode they are the firsts
\* of the calendar months from the month of rangeStart through the month of
\* rangeEnd, cut to the first 200, and the header cell of a month is (days in
\* the month) * pixelsPerDay wide.
C25_ColumnPerDayOrMonth ==
    LET columns == TimelineColumns(ganttTasks, pixelsPerDay, timezoneWest)
        rangeStart == StartDate(ganttTasks, pixelsPerDay, timezoneWest)
        rangeEnd == EndDate(ganttTasks, pixelsPerDay)
        first == LocalDate(rangeStart, timezoneWest)
        last == LocalDate(rangeEnd, timezoneWest)
    IN  IF pixelsPerDay.num >= 18 * pixelsPerDay.den
        THEN /\ Len(columns) = SmallerOf(rangeEnd - rangeStart + 1, 1000)
             /\ \A i \in 1..Len(columns) : columns[i] = rangeStart + i - 1
        ELSE /\ Len(columns) = SmallerOf(MonthsThrough(first, last), 200)
             /\ \A i \in 1..Len(columns) :
                    /\ LocalDate(columns[i], timezoneWest) = MonthAfter(first, i)
                    /\ HeaderWidth(columns[i], pixelsPerDay, timezoneWest) =
                           FracMul(FracOfInt(DaysInMonth(MonthAfter(first, i).y,
                                                         MonthAfter(first, i).m)),
                                   pixelsPerDay)

\* C25 witness: a Monthly timeline of more than 200 months, cut to 200
\* columns.
C25_Witness ==
    /\ pixelsPerDay.num < 18 * pixelsPerDay.den
    /\ MonthsThrough(LocalDate(StartDate(ganttTasks, pixelsPerDay, timezoneWest), timezoneWest),
                     LocalDate(EndDate(ganttTasks, pixelsPerDay), timezoneWest)) > 200
    /\ Len(TimelineColumns(ganttTasks, pixelsPerDay, timezoneWest)) = 200

\* C30: in Daily mode the header has as many day columns as a body row has
\* grid-line cells (totalDays), the header is as wide as the body row
\* (totalDays * pixelsPerDay), and every task bar ends at or before the right
\* edge of the last header column.
C30_HeaderMatchesBody ==
    pixelsPerDay.num >= 18 * pixelsPerDay.den =>
        LET columns == TimelineColumns(ganttTasks, pixelsPerDay, timezoneWest)
            totalDays == TotalDays(ganttTasks, pixelsPerDay, timezoneWest)
            headerWidth == FracMul(FracOfInt(Len(columns)), pixelsPerDay)
        IN  /\ Len(columns) = GridCells(ganttTasks, pixelsPerDay, timezoneWest)
            /\ Len(columns) = totalDays
            /\ headerWidth = BodyWidth(ganttTasks, pixelsPerDay, timezoneWest)
            /\ \A i \in 1..Len(ganttTasks) :
                   LET pos == PositionOf(ganttTasks[i].id)
                       bar == RenderedBar(ganttTasks[i], pos)
                   IN  bar # <<>> =>
                           /\ FracLeq(FracOfInt(0), FracAdd(bar[1].left, bar[1].width))
                           /\ FracLeq(FracAdd(bar[1].left, bar[1].width), headerWidth)

\* The ids of the projects whose tasks a step changes.
ModifiedProjects ==
    {id \in ProjectIds(projects) \cup ProjectIds(projects') :
        \/ id \notin ProjectIds(projects) \cap ProjectIds(projects')
        \/ \E i \in 1..Len(projects), k \in 1..Len(projects') :
               projects[i].id = id /\ projects'[k].id = id /\
               projects[i].tasks # projects'[k].tasks}

\* C27: a task create, a task edit that changes the task, and a bulk update
\* that changes a status modify the displayed project (activeProject) and no
\* other, and the project they modify is visible to the current user.
C27_SavesGoToDisplayedProject ==
    [][(lastOp'.op \in {"saveTask", "bulkUpdate"}) =>
          LET displayed == ActiveProject(projects, currentUserId, activeProjectId)
          IN  /\ ModifiedProjects \subseteq
                     ProjectIds(VisibleProjects(projects, currentUserId))
              /\ displayed # <<>> => ModifiedProjects \subseteq {displayed[1].id}
              /\ (lastOp'.op = "saveTask" /\ lastOp'.task.id = "new") =>
                     ModifiedProjects # {}]_vars

\* The issue handleSaveIssue wrote last, as the displayed project holds it.
WrittenIssue ==
    LET is == DisplayedIssues(projects, currentUserId, activeProjectId)
    IN  is[CHOOSE k \in 1..Len(is) : is[k].id = lastOp.id]

\* C26: the issue handleSaveIssue wrote is in the project; with status Open or
\* In Progress it has no closedDate; with status Resolved or Closed it has a
\* non-empty closedDate, the submitted one if there was one and else the day
\* of the save.
C26_ClosedDateFollowsStatus ==
    lastOp.op = "saveIssue" =>
        /\ \E k \in 1..Len(DisplayedIssues(projects, currentUserId, activeProjectId)) :
               DisplayedIssues(projects, currentUserId, activeProjectId)[k].id = lastOp.id
        /\ WrittenIssue.status = lastOp.issue.status
        /\ WrittenIssue.status \in {"Open", "In Progress"} =>
               WrittenIssue.closedDate = Undefined
        /\ WrittenIssue.status \in {"Resolved", "Closed"} =>
               /\ WrittenIssue.closedDate \notin {Undefined, ""}
               /\ WrittenIssue.closedDate =
                      IF lastOp.issue.closedDate \notin {Undefined, ""}
                      THEN lastOp.issue.closedDate
                      ELSE lastOp.today

\* C26 witness: an issue closed on an earlier day was saved again as Resolved
\* or Closed and kept its closedDate.
C26_Witness ==
    /\ lastOp.op = "saveIssue"
    /\ WrittenIssue.status \in {"Resolved", "Closed"}
    /\ lastOp.issue.closedDate \in IssueDates
    /\ lastOp.issue.closedDate # lastOp.today
    /\ WrittenIssue.closedDate = lastOp.issue.closedDate

\* C28: while the form opened from the new-task template has type Milestone
\* its startDate equals its dueDate, and so does every Milestone it submits.
C28_MilestoneDatesEqual ==
    /\ (taskFormData # <<>> /\ editingTask[1].id = "new"
        /\ taskFormData[1].type = "Milestone") =>
           taskFormData[1].startDate = taskFormData[1].dueDate
    /\ (lastOp.op = "saveTask" /\ lastOp.task.id = "new"
        /\ lastOp.task.type = "Milestone") =>
           /\ lastOp.task.startDate = lastOp.task.dueDate
           /\ \A i \in 1..Len(ganttTasks) :
                  (ganttTasks[i].id \in Range(NewTaskIdPool)
                   /\ ganttTasks[i].type = "Milestone") =>
                      ganttTasks[i].startDate = ganttTasks[i].dueDate

\* C28 witness: the form opened from the template is a Milestone whose due
\* date was just changed to another day than the template's.
C28_Witness ==
    /\ lastOp.op = "changeDueDate"
    /\ taskFormData # <<>>
    /\ editingTask[1].id = "new"
    /\ taskFormData[1].type = "Milestone"
    /\ taskFormData[1].dueDate # editingTask[1].dueDate
    /\ taskFormData[1].startDate = taskFormData[1].dueDate

\* C29: every task of type Task that the form saved is drawn with a bar at
\* least pixelsPerDay wide that lies inside the body, from 0 to
\* totalDays * pixelsPerDay.
C29_SavedTaskHasBar ==
    \A i \in 1..Len(ganttTasks) :
        ganttTasks[i].type = "Task" =>
            LET bar == RenderedBar(ganttTasks[i], PositionOf(ganttTasks[i].id))
            IN  /\ bar # <<>>
                /\ FracLeq(pixelsPerDay, bar[1].width)
                /\ FracLeq(FracOfInt(0), bar[1].left)
                /\ FracLeq(FracAdd(bar[1].left, bar[1].width),
                           BodyWidth(ganttTasks, pixelsPerDay, timezoneWest))

====
